---- MODULE Spec2Model ----
(***************************************************************************)
(* FleetPulse MCP layer: the backend HTTP client (src/mcp/client.py) and   *)
(* the aggregation tools built on it (src/mcp/tools.py), against the       *)
(* reporting API they call (src/backend/routers/hosts.py), and the         *)
(* JSON-RPC endpoint in front of the tools (src/mcp/main.py).              *)
(*                                                                         *)
(* The specifications of this module:                                      *)
(*   Spec        one _make_request call, attempt by attempt;               *)
(*   SpecAgg     get_all_updates against a backend table;                  *)
(*   SpecPkg     list_packages over the records the client hands it;       *)
(*   SpecDet     get_package_details over the fleet's records;             *)
(*   SpecStat    get_fleet_statistics over a roster and a record list;     *)
(*   SpecSearch  search over the views its three sub-calls return;         *)
(*   SpecRpc     POST /mcp, request by request;                            *)
(*   SpecFair    Spec, with every started attempt coming to an end;        *)
(*   SpecHealth  the health_check tool over one GET /health request;       *)
(*   SpecHost    list_hosts and get_host_details against a backend table;  *)
(*   SpecReports get_update_reports, grouping the rows it fetched;         *)
(*   SpecStartup validate_config and the server's lifespan;                *)
(*   SpecFetch   the fleet-wide fetches of the tools, with their limits;   *)
(*   SpecRace    get_fleet_statistics with reports arriving mid-call.      *)
(***************************************************************************)
EXTENDS Integers, Sequences, FiniteSets, TLC

VARIABLES
    \* ---- _make_request (Spec)
    max_retries,    \* config.max_retries
    retry_count,    \* the retry_count argument of the running frame
    pc,             \* "idle" | "request" | "done"
    attempts,       \* what client.request did on each attempt so far
    waits,          \* the asyncio.sleep durations so far, in order
    result,         \* what the outermost _make_request returned or raised
    \* ---- get_all_updates (SpecAgg)
    records,        \* the backend's package_updates table, in id order
    phase,          \* "idle" | "returned"
    call,           \* the arguments and environment of the last call
    requests,       \* the /history requests the call issued, in order
    updates,        \* what get_all_updates returned or raised
    warned,         \* the hosts get_all_updates logged a warning for
    \* ---- list_packages (SpecPkg)
    fetched,        \* the list client.get_all_updates returned
    set_order,      \* the iteration order of each package's versions set
    packages,       \* what list_packages returned
    \* ---- get_package_details (SpecDet)
    fleet,          \* the records of the fleet, as a fleet-wide fetch lists them
    package_name,   \* the package_name argument of the last call
    details,        \* what get_package_details returned or raised
    \* ---- get_fleet_statistics (SpecStat)
    roster,         \* the list client.list_hosts returned
    stat_updates,   \* the all_updates list client.get_all_updates returned
    stats,          \* what get_fleet_statistics returned
    \* ---- search (SpecSearch)
    backend_up,     \* whether the backend accepts connections
    views,          \* what list_hosts, list_packages, get_update_reports return
    search_call,    \* the query and result_type of the last search
    produced,       \* the results of the last search before the sort
    found,          \* what search returned
    \* ---- POST /mcp (SpecRpc)
    rpc_request,    \* the JSON-RPC request being served
    rpc_handler,    \* the route handler the request was dispatched to
    rpc_tool,       \* the tool the request invoked and how it ended
    rpc_response,   \* the JSON-RPC response
    rpc_after_raise, \* whether the tool of the previous request raised
    \* ---- health_check (SpecHealth)
    health,         \* what the health_check tool returned or raised
    \* ---- list_hosts and get_host_details (SpecHost)
    host_call,      \* the tool, its argument and the environment of the last call
    host_answer,    \* what the tool returned or raised
    \* ---- get_update_reports (SpecReports)
    report_call,    \* the arguments and environment of the last call
    report_list,    \* what get_update_reports returned or raised
    \* ---- startup (SpecStartup)
    mcp_config,     \* the MCPConfig read from the environment
    server,         \* "starting" | "rejected" | "serving" | "stopped"
    served_count,   \* the number of requests served since startup
    \* ---- get_fleet_statistics, request by request (SpecRace)
    stat_pc,        \* "idle" | "roster" | "done"
    stat_fetch      \* the host list get_all_updates fetched, and how its requests ended

reqVars == <<max_retries, retry_count, pc, attempts, waits, result>>
aggVars == <<records, phase, call, requests, updates, warned>>
pkgVars == <<fetched, set_order, packages>>
detVars == <<fleet, package_name, details>>
statVars == <<roster, stat_updates, stats>>
searchVars == <<backend_up, views, search_call, produced, found>>
rpcVars == <<rpc_request, rpc_handler, rpc_tool, rpc_response, rpc_after_raise>>
healthVars == <<health>>
hostVars == <<host_call, host_answer>>
reportVars == <<report_call, report_list>>
startVars == <<mcp_config, server, served_count>>
raceVars == <<stat_pc, stat_fetch>>
moreVars == <<healthVars, hostVars, reportVars, startVars, raceVars>>
toolVars == <<detVars, statVars, searchVars, rpcVars, moreVars>>
vars == <<reqVars, aggVars, pkgVars, toolVars>>

\* Python's None, for an unset argument or field.
None == "None"
\* An argument that Python's `if x:` finds unset: the empty string for a
\* package filter, no date for a date filter (dates are day numbers >= 1).
NoPackage == <<>>
NoDate == 0
\* No call has returned yet.
Nothing == [kind |-> "nothing"]

\* ------------------------------------------------------------------ bounds
MaxRetriesBound == 3
MaxRecords == 2
MaxFetched == 3

\* ------------------------------------------------------- generic helpers
RECURSIVE Pow2(_)
Pow2(n) == IF n = 0 THEN 1 ELSE 2 * Pow2(n - 1)

Last(s) == s[Len(s)]

\* =========================================================================
\* _make_request
\* =========================================================================

\* Status codes the backend may answer with; 399/400 and 499/500 are the
\* boundaries of the client's three classes.
Statuses == {200, 399, 400, 404, 499, 500, 503}
Bodies == {"body-a", "body-b"}

\* The exceptions of client.request that the client retries on.
ConnectExceptions == {"ConnectError", "TimeoutException"}

IsHTTPErrorFrom300(status) == status >= 300
\* `if response.status_code >= 400:`
IsHTTPError(status) == status >= 400

ShouldRetryStatusOffByOne(status, rc, mr) == status >= 500 /\ rc <= mr
ShouldRetryStatusAll4xx(status, rc, mr) == status >= 400 /\ rc < mr
\* `if (response.status_code >= 500 and retry_count < self.config.max_retries):`
ShouldRetryStatus(status, rc, mr) == status >= 500 /\ rc < mr

ShouldRetryConnectionOffByOne(rc, mr) == rc <= mr
\* A budget of its own for connection failures: the failures of that class
\* among the attempts so far, instead of the shared retry_count.
ShouldRetryConnectionPerClass(rc, mr) ==
    Cardinality({i \in 1..Len(attempts) : attempts[i].kind \in ConnectExceptions}) < mr
\* `if retry_count < self.config.max_retries:` of the ConnectError handler
ShouldRetryConnection(rc, mr) == rc < mr

WaitTimeLinear(rc) == rc + 1
\* `wait_time = 2 ** retry_count`, in both retry branches
WaitTime(rc) == Pow2(rc)

BackendHTTPError(status, body) ==
    [kind |-> "BackendHTTPError", status_code |-> status, response_body |-> body]
BackendConnectionError == [kind |-> "BackendConnectionError"]
Returned(status, body) == [kind |-> "response", status_code |-> status, body |-> body]
Reraised == [kind |-> "OtherException"]

\* A caller enters _make_request with the default retry_count = 0.
StartRequest ==
    /\ pc = "idle"
    /\ pc' = "request"
    /\ retry_count' = 0
    /\ attempts' = <<>>
    /\ waits' = <<>>
    /\ result' = Nothing
    /\ UNCHANGED <<max_retries, aggVars, pkgVars, toolVars>>

\* client.request returns a response: lines 104-152.
ReceiveResponse(status, body) ==
    /\ pc = "request"
    /\ attempts' = Append(attempts, [kind |-> "response", status |-> status, body |-> body])
    /\ IF IsHTTPError(status)
          THEN IF ShouldRetryStatus(status, retry_count, max_retries)
                  THEN /\ waits' = Append(waits, WaitTime(retry_count))
                       /\ retry_count' = retry_count + 1
                       /\ UNCHANGED <<pc, result>>
                  ELSE /\ result' = BackendHTTPError(status, body)
                       /\ pc' = "done"
                       /\ UNCHANGED <<waits, retry_count>>
          ELSE /\ result' = Returned(status, body)
               /\ pc' = "done"
               /\ UNCHANGED <<waits, retry_count>>
    /\ UNCHANGED <<max_retries, aggVars, pkgVars, toolVars>>

\* client.request raises httpx.ConnectError or httpx.TimeoutException:
\* lines 154-181.
ConnectionFails(exc) ==
    /\ pc = "request"
    /\ attempts' = Append(attempts, [kind |-> exc])
    /\ IF ShouldRetryConnection(retry_count, max_retries)
          THEN /\ waits' = Append(waits, WaitTime(retry_count))
               /\ retry_count' = retry_count + 1
               /\ UNCHANGED <<pc, result>>
          ELSE /\ result' = BackendConnectionError
               /\ pc' = "done"
               /\ UNCHANGED <<waits, retry_count>>
    /\ UNCHANGED <<max_retries, aggVars, pkgVars, toolVars>>

\* client.request raises anything else: logged and re-raised, lines 183-191.
UnexpectedFailure ==
    /\ pc = "request"
    /\ attempts' = Append(attempts, [kind |-> "OtherException"])
    /\ result' = Reraised
    /\ pc' = "done"
    /\ UNCHANGED <<max_retries, retry_count, waits, aggVars, pkgVars, toolVars>>

\* The caller has its answer; the client is free for the next request.
FinishRequest ==
    /\ pc = "done"
    /\ pc' = "idle"
    /\ UNCHANGED <<max_retries, retry_count, attempts, waits, result, aggVars, pkgVars, toolVars>>

\* ------------------------------------------------------------ claims C1-C4

Is5xx(a) == a.kind = "response" /\ a.status >= 500
Is4xx(a) == a.kind = "response" /\ a.status >= 400 /\ a.status <= 499
IsSuccess(a) == a.kind = "response" /\ a.status < 400
IsConnectFailure(a) == a.kind \in ConnectExceptions
IsTransient(a) == Is5xx(a) \/ IsConnectFailure(a)

AllAttempts(P(_)) == \A i \in 1..Len(attempts) : P(attempts[i])

\* C1: a request whose every attempt is answered with a status >= 500 makes
\* exactly max_retries + 1 attempts (it neither stops earlier nor goes on
\* longer) and then fails with BackendHTTPError carrying the status and the
\* body of the last response.
C1_Exhausted5xx ==
    (Len(attempts) > 0 /\ AllAttempts(Is5xx)) =>
        /\ Len(attempts) <= max_retries + 1
        /\ (pc = "request") <=> (Len(attempts) <= max_retries)
        /\ pc # "request" =>
              /\ Len(attempts) = max_retries + 1
              /\ result = BackendHTTPError(Last(attempts).status, Last(attempts).body)

C1_Witness ==
    /\ pc = "done"
    /\ max_retries = 2
    /\ Len(attempts) = 3
    /\ AllAttempts(Is5xx)
    /\ attempts[1].status = 503 /\ attempts[3].status = 500
    /\ attempts[2].body # attempts[3].body
    /\ result = BackendHTTPError(500, attempts[3].body)

\* C2: a response with a status in 400..499 is never retried: the attempt
\* that received it is the last one, whatever max_retries and the retry
\* count at that point, and the request fails with BackendHTTPError carrying
\* that status and body.
C2_ClientErrorNotRetried ==
    \A i \in 1..Len(attempts) :
        Is4xx(attempts[i]) =>
            /\ i = Len(attempts)
            /\ pc # "request"
            /\ Len(waits) = i - 1
            /\ result = BackendHTTPError(attempts[i].status, attempts[i].body)

C2_Witness ==
    /\ pc = "done"
    /\ max_retries = 3
    /\ retry_count = 1
    /\ Len(attempts) = 2
    /\ Is5xx(attempts[1])
    /\ attempts[2] = [kind |-> "response", status |-> 404, body |-> "body-b"]
    /\ result = BackendHTTPError(404, "body-b")

\* C3: a request whose every attempt ends in a connection failure or a
\* timeout makes max_retries + 1 attempts and then fails with
\* BackendConnectionError, never with BackendHTTPError.
C3_ExhaustedConnection ==
    (Len(attempts) > 0 /\ AllAttempts(IsConnectFailure)) =>
        /\ Len(attempts) <= max_retries + 1
        /\ (pc = "request") <=> (Len(attempts) <= max_retries)
        /\ pc # "request" =>
              /\ Len(attempts) = max_retries + 1
              /\ result = BackendConnectionError
              /\ result.kind # "BackendHTTPError"

C3_Witness ==
    /\ pc = "done"
    /\ max_retries = 2
    /\ Len(attempts) = 3
    /\ AllAttempts(IsConnectFailure)
    /\ attempts[1].kind = "ConnectError" /\ attempts[2].kind = "TimeoutException"
    /\ result = BackendConnectionError

\* C4: after k <= max_retries transient failures (5xx or connection
\* failure/timeout) the request is still being tried, and when attempt k + 1
\* gets a status < 400 that response is returned and no further attempt is
\* made.
C4_SuccessAfterRetries ==
    /\ (Len(attempts) > 0 /\ AllAttempts(IsTransient) /\ Len(attempts) <= max_retries)
          => pc = "request"
    /\ \A i \in 1..Len(attempts) :
          IsSuccess(attempts[i]) =>
              /\ i = Len(attempts)
              /\ \A j \in 1..(i - 1) : IsTransient(attempts[j])
              /\ pc # "request"
              /\ result = Returned(attempts[i].status, attempts[i].body)

C4_Witness ==
    /\ pc = "done"
    /\ max_retries = 3
    /\ Len(attempts) = 3
    /\ attempts[1].kind = "response" /\ attempts[1].status = 503
    /\ attempts[2].kind = "response" /\ attempts[2].status = 503
    /\ attempts[3] = [kind |-> "response", status |-> 200, body |-> "body-a"]
    /\ result = Returned(200, "body-a")

\* =========================================================================
\* The reporting API: the package_updates table and GET /history/{hostname}
\* =========================================================================

Hosts == {"web-01", "db-01"}
\* update_date: the day number of a zero-padded ISO date, for which string
\* order and chronological order coincide.
Dates == {1, 2}
\* A package name is a sequence of pieces, so that the partial match of the
\* package filter is a real substring test.
PackageNames == {<<"nginx", "-common">>, <<"curl">>}
PackageFilters == {NoPackage, <<"nginx">>}
OSes == {"ubuntu"}
AggVersions == {"1.1"}

\* The limit and offset bounds of GET /history (Query(50, ge=1, le=1000) and
\* Query(0, ge=0)).
HistoryMinLimit == 1
HistoryMaxLimit == 1000
HistoryMinOffset == 0

Min(a, b) == IF a < b THEN a ELSE b

\* Python's s[lo:hi] for 0 <= lo <= hi.
Slice(s, lo, hi) == SubSeq(s, lo + 1, Min(hi, Len(s)))

\* str.lower() on a piece; the names in use are lower case already.
LowerPiece(p) == IF p = "NGINX" THEN "nginx" ELSE IF p = "CURL" THEN "curl" ELSE p
Lower(name) == [i \in 1..Len(name) |-> LowerPiece(name[i])]

\* needle is a contiguous part of hay.
Contains(hay, needle) ==
    \E i \in 0..(Len(hay) - Len(needle)) : SubSeq(hay, i + 1, i + Len(needle)) = needle

\* PackageUpdate.name.ilike(f"%{package}%")
ILike(name, package) == Contains(Lower(name), Lower(package))

\* ORDER BY update_date DESC, id DESC
NewerFirst(a, b) ==
    \/ a.update_date > b.update_date
    \/ a.update_date = b.update_date /\ a.id > b.id

RECURSIVE InsertOrdered(_, _)
InsertOrdered(x, s) ==
    IF s = <<>> THEN <<x>>
    ELSE IF NewerFirst(x, Head(s)) THEN <<x>> \o s
    ELSE <<Head(s)>> \o InsertOrdered(x, Tail(s))

RECURSIVE OrderByDateIdDesc(_)
OrderByDateIdDesc(s) ==
    IF s = <<>> THEN <<>> ELSE InsertOrdered(Head(s), OrderByDateIdDesc(Tail(s)))

\* The WHERE clauses of host_history.
MatchesFilters(r, hostname, date_from, date_to, package) ==
    /\ r.hostname = hostname
    /\ date_from # NoDate => r.update_date >= date_from
    /\ date_to # NoDate => r.update_date <= date_to
    /\ package # NoPackage => ILike(r.name, package)

HostHistoryAnyLimit(table, req) ==
    IF req.limit < HistoryMinLimit \/ req.offset < HistoryMinOffset
    THEN [status |-> 422]
    ELSE IF req.date_from # NoDate /\ req.date_to # NoDate /\ req.date_from > req.date_to
    THEN [status |-> 400]
    ELSE LET Keep(r) == MatchesFilters(r, req.hostname, req.date_from, req.date_to, req.package)
             matching == SelectSeq(table, Keep)
             total == Len(matching)
         IN IF total = 0
            THEN [status |-> 404]
            ELSE [status |-> 200,
                  items |-> Slice(OrderByDateIdDesc(matching), req.offset, req.offset + req.limit),
                  total |-> total, limit |-> req.limit, offset |-> req.offset]
\* GET /history/{hostname}: the status and, on 200, the page.
HostHistory(table, req) ==
    IF req.limit < HistoryMinLimit \/ req.limit > HistoryMaxLimit \/ req.offset < HistoryMinOffset
    THEN [status |-> 422]
    ELSE IF req.date_from # NoDate /\ req.date_to # NoDate /\ req.date_from > req.date_to
    THEN [status |-> 400]
    ELSE LET Keep(r) == MatchesFilters(r, req.hostname, req.date_from, req.date_to, req.package)
             matching == SelectSeq(table, Keep)
             total == Len(matching)
         IN IF total = 0
            THEN [status |-> 404]
            ELSE [status |-> 200,
                  items |-> Slice(OrderByDateIdDesc(matching), req.offset, req.offset + req.limit),
                  total |-> total, limit |-> req.limit, offset |-> req.offset]

\* POST /report with one package: one row appended, the next id assigned.
ReportUpdate(hostname, os, update_date, name, new_version) ==
    /\ phase = "idle"
    /\ Len(records) < MaxRecords
    /\ records' = Append(records, [id |-> Len(records) + 1, hostname |-> hostname, os |-> os,
                                   update_date |-> update_date, name |-> name,
                                   new_version |-> new_version])
    /\ UNCHANGED <<phase, call, requests, updates, warned, reqVars, pkgVars, toolVars>>

\* SELECT DISTINCT hostname: the hosts with a row.
HostsOf(table) == {table[i].hostname : i \in 1..Len(table)}

\* =========================================================================
\* get_host_history and get_all_updates
\* =========================================================================

\* How a /history request can end besides the backend's own answer: every
\* attempt answered 503, or every attempt failing to connect.
Faults == {"none", "503", "connect"}

Ok(items) == [kind |-> "ok", items |-> items]
HTTPError(status) == [kind |-> "BackendHTTPError", status_code |-> status]
ConnectionError == [kind |-> "BackendConnectionError"]

\* get_host_history: the request it sends and how _make_request ends.
GetHostHistory(table, fault, req) ==
    IF fault = "connect" THEN ConnectionError
    ELSE IF fault = "503" THEN HTTPError(503)
    ELSE LET resp == HostHistory(table, req)
         IN IF resp.status >= 400 THEN HTTPError(resp.status) ELSE Ok(resp.items)

HistoryRequest(hostname, c, limit, offset) ==
    [hostname |-> hostname, date_from |-> c.date_from, date_to |-> c.date_to,
     package |-> c.package, limit |-> limit, offset |-> offset]

\* `e.status_code == 404`
IsNotFound(err) == err.status_code = 404

HostPathCatchesAny(err) == err.kind = "BackendHTTPError"
\* `except BackendHTTPError as e: if e.status_code == 404: return []`
HostPathReturnsEmpty(err) == err.kind = "BackendHTTPError" /\ IsNotFound(err)

FleetLoopCatchesExcept404(err) == err.kind = "BackendHTTPError" /\ ~IsNotFound(err)
\* `except BackendHTTPError as e:` of the per-host loop
FleetLoopCatches(err) == err.kind = "BackendHTTPError"

\* all_updates.sort(key=update_date, reverse=True): stable, so records with
\* the same date keep the order in which they were appended.
RECURSIVE InsertByDate(_, _)
InsertByDate(x, s) ==
    IF s = <<>> THEN <<x>>
    ELSE IF x.update_date >= Head(s).update_date THEN <<x>> \o s
    ELSE <<Head(s)>> \o InsertByDate(x, Tail(s))

RECURSIVE SortByDateDesc(_)
SortByDateDesc(s) ==
    IF s = <<>> THEN <<>> ELSE InsertByDate(Head(s), SortByDateDesc(Tail(s)))

\* The loop over hosts, from host i on: lines 279-302.
RECURSIVE FleetLoop(_, _, _, _, _, _)
FleetLoop(table, c, i, all_updates, reqs, warnings) ==
    IF i > Len(c.hosts)
    THEN [out |-> Ok(Slice(SortByDateDesc(all_updates), c.offset, c.offset + c.limit)),
          reqs |-> reqs, warned |-> warnings]
    ELSE LET host == c.hosts[i]
             req == HistoryRequest(host, c, c.limit, 0)
             history == GetHostHistory(table, c.fault[host], req)
         IN IF history.kind = "ok"
            THEN FleetLoop(table, c, i + 1, all_updates \o history.items,
                           Append(reqs, req), warnings)
            ELSE IF FleetLoopCatches(history)
            THEN FleetLoop(table, c, i + 1, all_updates, Append(reqs, req),
                           IF IsNotFound(history) THEN warnings ELSE Append(warnings, host))
            ELSE [out |-> history, reqs |-> Append(reqs, req), warned |-> warnings]

\* get_all_updates: lines 246-302.
GetAllUpdatesOf(table, c) ==
    IF c.hostname # None
    THEN LET req == HistoryRequest(c.hostname, c, c.limit, c.offset)
             history == GetHostHistory(table, c.fault[c.hostname], req)
         IN [out |-> IF history.kind = "ok" THEN Ok(history.items)
                     ELSE IF HostPathReturnsEmpty(history) THEN Ok(<<>>)
                     ELSE history,
             reqs |-> <<req>>, warned |-> <<>>]
    ELSE FleetLoop(table, c, 1, <<>>, <<>>, <<>>)

\* The orders in which GET /hosts may list the hosts (SELECT DISTINCT without
\* ORDER BY).
HostOrders(table) ==
    {o \in [1..Cardinality(HostsOf(table)) -> HostsOf(table)] :
        \A i, j \in DOMAIN o : i # j => o[i] # o[j]}

\* The arguments the calls are made with. The second date range is one the
\* backend rejects with 400 (date_from after date_to).
Limits == {1, 2}
Offsets == {0, 1}
DateRanges == {<<NoDate, NoDate>>, <<2, 1>>}

\* The arguments of one get_all_updates call, with the order in which GET
\* /hosts lists the hosts and how each host's /history request ends.
\* The fields stand in the order TLC sorts them into: a record built in the
\* argument of an action is one value shared by TLC's workers, and each
\* worker would otherwise reorder its fields in place while another reads it.
Call(limit, offset, hostname, package, date_from, date_to, hosts, fault) ==
    [package |-> package, hostname |-> hostname, date_from |-> date_from,
     date_to |-> date_to, limit |-> limit, offset |-> offset, fault |-> fault,
     hosts |-> hosts]

GetAllUpdates(c) ==
    /\ phase = "idle"
    /\ \E r \in {GetAllUpdatesOf(records, c)} :
          /\ updates' = r.out
          /\ requests' = r.reqs
          /\ warned' = r.warned
    /\ call' = c
    /\ phase' = "returned"
    /\ UNCHANGED <<records, reqVars, pkgVars, toolVars>>

\* The caller takes the result.
ReturnUpdates ==
    /\ phase = "returned"
    /\ phase' = "idle"
    /\ call' = Nothing
    /\ requests' = <<>>
    /\ updates' = Nothing
    /\ warned' = <<>>
    /\ UNCHANGED <<records, reqVars, pkgVars, toolVars>>

\* ------------------------------------------------------------ claims C5-C9

FleetCallReturned == phase = "returned" /\ call.hostname = None
HostCallReturned == phase = "returned" /\ call.hostname # None

\* How the /history request of the last call for host h ended.
Ending(h) ==
    GetHostHistory(records, call.fault[h], HistoryRequest(h, call, call.limit, 0))
EndedNotFound(h) == Ending(h).kind = "BackendHTTPError" /\ Ending(h).status_code = 404
EndedInOtherError(h) == Ending(h).kind # "ok" /\ ~EndedNotFound(h)

\* The records the hosts of hs other than `skip` returned, in the order of hs.
RECURSIVE ReturnedBy(_, _)
ReturnedBy(hs, skip) ==
    IF hs = <<>> THEN <<>>
    ELSE (IF Head(hs) # skip /\ Ending(Head(hs)).kind = "ok"
          THEN Ending(Head(hs)).items ELSE <<>>) \o ReturnedBy(Tail(hs), skip)

Page(s) == Slice(SortByDateDesc(s), call.offset, call.offset + call.limit)

\* C5: in a fleet-wide get_all_updates, when one host's history request fails
\* with an error other than 404 (an HTTP error, or a connection failure after
\* the retries) and the other hosts answer, the call does not fail: it
\* returns the merged records of the other hosts.
C5_OtherErrorsSkipped ==
    FleetCallReturned =>
        \A i \in 1..Len(call.hosts) :
            (/\ Len(call.hosts) >= 2
             /\ EndedInOtherError(call.hosts[i])
             /\ \A j \in 1..Len(call.hosts) : j # i => ~EndedInOtherError(call.hosts[j]))
            => updates = Ok(Page(ReturnedBy(call.hosts, call.hosts[i])))

\* The part of C5 the code does keep: a host whose request ends in
\* BackendHTTPError is skipped with a warning.
C5_HTTPErrorSkipped ==
    /\ FleetCallReturned
    /\ updates.kind = "ok"
    /\ Len(updates.items) = 1
    /\ \E h \in HostsOf(records) : call.fault[h] = "503" /\ warned = <<h>>

\* The full filtered history of host h, newest first.
FullHistory(h) ==
    LET Keep(r) == MatchesFilters(r, h, call.date_from, call.date_to, call.package)
    IN OrderByDateIdDesc(SelectSeq(records, Keep))

RECURSIVE MergedFullHistories(_)
MergedFullHistories(hs) ==
    IF hs = <<>> THEN <<>> ELSE FullHistory(Head(hs)) \o MergedFullHistories(Tail(hs))

DatesOf(s) == [i \in 1..Len(s) |-> s[i].update_date]

\* C6: a fleet-wide get_all_updates(limit=L, offset=O) returns the slice
\* [O:O+L] of the date-descending sort of every host's full filtered history
\* merged. Stated on the dates, so that it holds of every order the sort may
\* give to records of the same date.
C6_SliceOfFullMerge ==
    (FleetCallReturned /\ \A i \in 1..Len(call.hosts) : ~EndedInOtherError(call.hosts[i]))
        => /\ updates.kind = "ok"
           /\ DatesOf(updates.items) = DatesOf(Page(MergedFullHistories(call.hosts)))

Without(s, i) == [k \in 1..(Len(s) - 1) |-> IF k < i THEN s[k] ELSE s[k + 1]]

\* C7: in a fleet-wide get_all_updates a host whose history request returns
\* 404 raises no error and no warning and contributes nothing: the call ends
\* as it would with that host absent from the host list, and unless another
\* host's request ends in a connection error it returns the page of the
\* records the other hosts returned.
C7_NotFoundHostExcluded ==
    FleetCallReturned =>
        \A i \in 1..Len(call.hosts) :
            LET h == call.hosts[i]
                absent == GetAllUpdatesOf(records, [call EXCEPT !.hosts = Without(call.hosts, i)])
            IN EndedNotFound(h) =>
                  /\ updates = absent.out
                  /\ warned = absent.warned
                  /\ \A k \in 1..Len(warned) : warned[k] # h
                  /\ (\A j \in 1..Len(call.hosts) : call.fault[call.hosts[j]] # "connect")
                        => updates = Ok(Page(ReturnedBy(call.hosts, h)))

C7_Witness ==
    /\ FleetCallReturned
    /\ Len(call.hosts) = 2
    /\ call.fault = [h \in Hosts |-> "none"]
    /\ EndedNotFound(call.hosts[1])
    /\ Ending(call.hosts[2]).kind = "ok"
    /\ updates.kind = "ok"
    /\ Len(updates.items) = 1
    /\ updates.items[1].hostname = call.hosts[2]
    /\ warned = <<>>

\* C8: get_all_updates(hostname=h, ...) issues one history request, for h,
\* carrying the call's filters, limit and offset; a 404 gives an empty list,
\* a page is returned as it is, and every other failure reaches the caller.
C8_HostPath ==
    HostCallReturned =>
        LET req == [hostname |-> call.hostname, date_from |-> call.date_from,
                    date_to |-> call.date_to, package |-> call.package,
                    limit |-> call.limit, offset |-> call.offset]
            resp == HostHistory(records, req)
            fault == call.fault[call.hostname]
        IN /\ requests = <<req>>
           /\ fault = "connect" => updates = ConnectionError
           /\ fault = "503" => updates = HTTPError(503)
           /\ fault = "none" =>
                 /\ resp.status = 404 => updates = Ok(<<>>)
                 /\ (resp.status >= 400 /\ resp.status # 404) => updates = HTTPError(resp.status)
                 /\ resp.status = 200 => updates = Ok(resp.items)

C8_Witness ==
    /\ HostCallReturned
    /\ call.hostname = "web-01"
    /\ call.fault["web-01"] = "none"
    /\ call.package = <<"nginx">>
    /\ call.limit = 2 /\ call.offset = 1
    /\ Len(records) = 2
    /\ \E i \in 1..2 : records[i].hostname = "web-01"
    /\ requests = <<[hostname |-> "web-01", date_from |-> NoDate, date_to |-> NoDate,
                     package |-> <<"nginx">>, limit |-> 2, offset |-> 1]>>
    /\ updates = Ok(<<>>)

\* C9: the list a fleet-wide get_all_updates returns is the same for every
\* order in which GET /hosts may list the hosts.
C9_HostOrderIrrelevant ==
    FleetCallReturned =>
        \A o \in HostOrders(records) :
            GetAllUpdatesOf(records, [call EXCEPT !.hosts = o]).out = updates

\* =========================================================================
\* list_packages
\* =========================================================================

Versions == {"1.0", "1.1"}

\* What list_packages reads of a record of the list get_all_updates returns.
FetchedRecords ==
    [hostname : Hosts, update_date : Dates, name : PackageNames, new_version : Versions]

\* get_all_updates returns its list newest first.
NewestFirst(s) == \A i \in 1..(Len(s) - 1) : s[i].update_date >= s[i + 1].update_date

FetchedLists ==
    {s \in UNION {[1..n -> FetchedRecords] : n \in 0..MaxFetched} : NewestFirst(s)}

Range(s) == {s[i] : i \in 1..Len(s)}

\* The orders in which Python may iterate a set of strings (the order follows
\* the strings' hashes, which differ from run to run).
IterationOrders(S) ==
    {o \in [1..Cardinality(S) -> S] : \A i, j \in DOMAIN o : i # j => o[i] # o[j]}

Count(s, v) == Cardinality({i \in 1..Len(s) : s[i] = v})
FirstIndex(s, v) == CHOOSE i \in 1..Len(s) : s[i] = v /\ \A j \in 1..(i - 1) : s[j] # v

\* Counter(iterable).most_common(1)[0][0]: the element counted most often,
\* the one met first in the iteration among equals.
MostCommon(iter) ==
    CHOOSE v \in Range(iter) :
        \A w \in Range(iter) :
            \/ Count(iter, v) > Count(iter, w)
            \/ Count(iter, v) = Count(iter, w) /\ FirstIndex(iter, v) <= FirstIndex(iter, w)

\* packages_map[name] after the loop over the updates: lines 289-314.
HostsWith(upd, name) == {upd[i].hostname : i \in {k \in 1..Len(upd) : upd[k].name = name}}
VersionsSet(upd, name) ==
    {upd[i].new_version : i \in {k \in 1..Len(upd) : upd[k].name = name /\ upd[k].new_version # ""}}
LastUpdated(upd, name) ==
    LET ds == {upd[i].update_date : i \in {k \in 1..Len(upd) : upd[k].name = name}}
    IN CHOOSE d \in ds : \A e \in ds : e <= d

\* The order of str on the pieces of the names in use ('-' < 'c' < 'n').
PieceRank(p) == IF p = "-common" THEN 1 ELSE IF p = "curl" THEN 2 ELSE 3

RECURSIVE NameLess(_, _)
NameLess(a, b) ==
    IF b = <<>> THEN FALSE
    ELSE IF a = <<>> THEN TRUE
    ELSE IF PieceRank(Head(a)) # PieceRank(Head(b)) THEN PieceRank(Head(a)) < PieceRank(Head(b))
    ELSE NameLess(Tail(a), Tail(b))

\* packages.sort(key=lambda p: p.name), of packages with distinct names.
RECURSIVE SortedByName(_)
SortedByName(P) ==
    IF P = {} THEN <<>>
    ELSE LET first == CHOOSE p \in P : \A q \in P : q # p => NameLess(p.name, q.name)
         IN <<first>> \o SortedByName(P \ {first})

\* `version_counts = Counter(info['versions'])`: the counter is fed the set.
CurrentVersion(upd, name, iter) ==
    IF VersionsSet(upd, name) = {} THEN None ELSE MostCommon(iter)

\* list_packages on the list `upd`, with iter[name] the order in which the
\* versions set of package `name` is iterated.
ListPackagesOf(upd, iter) ==
    SortedByName({[name |-> n,
                   current_version |-> CurrentVersion(upd, n, iter[n]),
                   hosts |-> HostsWith(upd, n),
                   last_updated |-> LastUpdated(upd, n)] :
                  n \in {upd[i].name : i \in {k \in 1..Len(upd) : upd[k].name # <<>>}}})

NamesIn(upd) == {upd[i].name : i \in 1..Len(upd)}

\* The sets of versions as they happen to be iterated, one order a package.
IterationChoices(upd) ==
    {f \in [NamesIn(upd) -> UNION {IterationOrders(VersionsSet(upd, n)) : n \in NamesIn(upd)}] :
        \A n \in NamesIn(upd) : f[n] \in IterationOrders(VersionsSet(upd, n))}

ListPackages(iter) ==
    /\ packages = Nothing
    /\ set_order' = iter
    /\ packages' = [kind |-> "ok", items |-> ListPackagesOf(fetched, iter)]
    /\ UNCHANGED <<fetched, reqVars, aggVars, toolVars>>

\* The caller takes the list.
ReturnPackages ==
    /\ packages # Nothing
    /\ packages' = Nothing
    /\ set_order' = <<>>
    /\ UNCHANGED <<fetched, reqVars, aggVars, toolVars>>

\* ---------------------------------------------------------------- claim C10

\* The new_version of the fetched records of package `name`, in fetched order.
VersionsSeen(name) ==
    LET Named(r) == r.name = name
        named == SelectSeq(fetched, Named)
    IN [i \in 1..Len(named) |-> named[i].new_version]

\* C10: every package list_packages returns carries as current_version the
\* new_version that occurs most often among the fetched records of that
\* package, the one that occurs first among those that occur equally often.
C10_CurrentVersionIsMode ==
    packages # Nothing =>
        \A i \in 1..Len(packages.items) :
            LET seen == VersionsSeen(packages.items[i].name)
            IN \A w \in Range(seen) :
                  \/ Count(seen, packages.items[i].current_version) > Count(seen, w)
                  \/ /\ Count(seen, packages.items[i].current_version) = Count(seen, w)
                     /\ FirstIndex(seen, packages.items[i].current_version) <= FirstIndex(seen, w)

\* =========================================================================
\* get_package_details
\* =========================================================================

\* The package_name arguments in use: a stored name, and a name that is only
\* a part of a stored one.
DetailNames == {<<"curl">>, <<"nginx", "-common">>, <<"nginx">>}

MCPToolError(message) == [kind |-> "MCPToolError", message |-> message]

\* client.get_all_updates(package=package_name, ...) with every host
\* answering: each host's /history keeps the records its package filter
\* matches, and the merge is sorted newest first.
FetchFor(table, name) ==
    LET Keep(r) == name # NoPackage => ILike(r.name, name)
    IN SelectSeq(table, Keep)

RECURSIVE Reversed(_)
Reversed(s) == IF s = <<>> THEN <<>> ELSE Append(Reversed(Tail(s)), Head(s))

DetailsVersionsLastFirst(upd, name) ==
    LET Named(r) == r.name = name /\ r.new_version # ""
        named == SelectSeq(upd, Named)
    IN Reversed([i \in 1..Len(named) |-> named[i].new_version])
\* `versions`: the non-empty new_version of every update whose name equals
\* package_name, appended in the order of `updates`.
DetailsVersions(upd, name) ==
    LET Named(r) == r.name = name /\ r.new_version # ""
        named == SelectSeq(upd, Named)
    IN [i \in 1..Len(named) |-> named[i].new_version]

\* get_package_details on the fleet's records: lines 357-409. The not-found
\* error is raised inside the try and leaves wrapped by the handler.
GetPackageDetailsOf(table, name) ==
    LET upd == FetchFor(table, name)
        versions == DetailsVersions(upd, name)
    IN IF upd = <<>>
       THEN MCPToolError("Failed to get package details: Package not found")
       ELSE [kind |-> "ok",
             name |-> name,
             current_version |-> IF versions = <<>> THEN None ELSE MostCommon(versions),
             hosts |-> HostsWith(upd, name),
             last_updated |-> IF HostsWith(upd, name) = {} THEN NoDate
                              ELSE LastUpdated(upd, name)]

GetPackageDetails(name) ==
    /\ details = Nothing
    /\ package_name' = name
    /\ details' = GetPackageDetailsOf(fleet, name)
    /\ UNCHANGED <<fleet, reqVars, aggVars, pkgVars, statVars, searchVars, rpcVars, moreVars>>

\* The caller takes the answer.
ReturnDetails ==
    /\ details # Nothing
    /\ details' = Nothing
    /\ package_name' = NoPackage
    /\ UNCHANGED <<fleet, reqVars, aggVars, pkgVars, statVars, searchVars, rpcVars, moreVars>>

\* ----------------------------------------------------------- claims C11-C12

\* The new_version of the fleet's records named exactly `name`, newest first.
NamedVersions(name) ==
    LET Named(r) == r.name = name
        named == SelectSeq(fleet, Named)
    IN [i \in 1..Len(named) |-> named[i].new_version]

\* C11: the current_version get_package_details(name) returns is the
\* new_version that occurs most often among the fetched records whose name
\* equals name, and among versions that occur equally often the one that
\* occurs first in the date-descending sequence, whatever their alphabetical
\* order.
C11_DetailsVersionIsMode ==
    details.kind = "ok" =>
        LET seen == NamedVersions(package_name)
            cv == details.current_version
        IN IF seen = <<>> THEN cv = None
           ELSE /\ cv \in Range(seen)
                /\ \A w \in Range(seen) :
                      \/ Count(seen, cv) > Count(seen, w)
                      \/ /\ Count(seen, cv) = Count(seen, w)
                         /\ FirstIndex(seen, cv) <= FirstIndex(seen, w)

\* Two versions of curl seen once each, the alphabetically later one first.
C11_Witness ==
    /\ details.kind = "ok"
    /\ package_name = <<"curl">>
    /\ NamedVersions(<<"curl">>) = <<"1.1", "1.0">>
    /\ details.current_version = "1.1"

MaxStatRecords == 2

\* date.today() as a day number, and the two activity windows.
Today == 100
SevenDays == 7
ThirtyDays == 30
\* most_common(10) and recent_activity[:20]
TopPackages == 10
RecentCap == 20

\* An update_date string that date.fromisoformat rejects. As the missing
\* date '' (NoDate) sorts below every ISO date, a string such as "n/a" sorts
\* above them all.
BadDate == 1000

\* The update_date of a record: today, the boundary day of each window, a
\* day between the windows, a day outside both, none, and an unparseable one.
StatDates ==
    {Today, Today - SevenDays, Today - SevenDays - 1, Today - ThirtyDays, Today - 40,
     NoDate, BadDate}

\* What get_fleet_statistics reads of a record.
StatRecords == [hostname : Hosts, update_date : StatDates, name : PackageNames]

StatLists ==
    {s \in UNION {[1..n -> StatRecords] : n \in 0..MaxStatRecords} : NewestFirst(s)}

\* The rosters GET /hosts may answer with; it is a request of its own, sent
\* before the histories are fetched.
Rosters ==
    {o \in UNION {[1..n -> Hosts] : n \in 0..Cardinality(Hosts)} :
        \A i, j \in DOMAIN o : i # j => o[i] # o[j]}

\* `if update_date_str:` and date.fromisoformat not raising ValueError.
ParsesAsDate(d) == d # NoDate /\ d # BadDate

InWindowExclusive(d, since) == d > since
\* `update_date >= seven_days_ago`, `update_date >= thirty_days_ago`
InWindow(d, since) == d >= since

\* The records for which the body of the `try` runs.
Dated(upd) ==
    LET Parses(r) == ParsesAsDate(r.update_date)
    IN SelectSeq(upd, Parses)

\* active_hosts_7d / active_hosts_30d
ActiveHosts(upd, since) ==
    {r.hostname : r \in {x \in Range(Dated(upd)) : InWindow(x.update_date, since)}}

\* unique_packages: lines 431-437.
UniquePackages(upd) == {r.name : r \in {x \in Range(upd) : x.name # NoPackage}}

\* The keys of a Counter in the order of their first insertion.
RECURSIVE FirstSeenOrder(_)
FirstSeenOrder(s) ==
    IF s = <<>> THEN <<>>
    ELSE LET rest == FirstSeenOrder(SubSeq(s, 1, Len(s) - 1))
         IN IF Last(s) \in Range(rest) THEN rest ELSE Append(rest, Last(s))

\* Counter.most_common(n): by count, highest first; equal counts in the order
\* of first insertion.
RECURSIVE InsertByCount(_, _)
InsertByCount(x, s) ==
    IF s = <<>> THEN <<x>>
    ELSE IF x.update_count >= Head(s).update_count THEN <<x>> \o s
    ELSE <<Head(s)>> \o InsertByCount(x, Tail(s))

RECURSIVE SortByCountDesc(_)
SortByCountDesc(s) ==
    IF s = <<>> THEN <<>> ELSE InsertByCount(Head(s), SortByCountDesc(Tail(s)))

\* package_counts is incremented inside the `try`, after the date parsed:
\* lines 454-466.
MostUpdatedPackages(upd) ==
    LET Named(r) == r.name # NoPackage
        counted == SelectSeq(Dated(upd), Named)
        names == [i \in 1..Len(counted) |-> counted[i].name]
        keys == FirstSeenOrder(names)
    IN Slice(SortByCountDesc([i \in 1..Len(keys) |->
                 [package |-> keys[i], update_count |-> Count(names, keys[i])]]),
             0, TopPackages)

\* recent_activity: lines 468-476 and 488-489.
RecentActivity(upd) ==
    LET Recent(r) == InWindow(r.update_date, Today - SevenDays)
        recent == SortByDateDesc(SelectSeq(Dated(upd), Recent))
    IN Slice([i \in 1..Len(recent) |->
                 [date |-> recent[i].update_date, hostname |-> recent[i].hostname,
                  package |-> recent[i].name]],
             0, RecentCap)

\* get_fleet_statistics on the roster and the fetched list: lines 426-499.
GetFleetStatisticsOf(hosts, upd) ==
    [kind |-> "ok",
     total_hosts |-> Len(hosts),
     total_reports |-> Len(upd),
     total_packages |-> Cardinality(UniquePackages(upd)),
     active_hosts_last_7_days |-> Cardinality(ActiveHosts(upd, Today - SevenDays)),
     active_hosts_last_30_days |-> Cardinality(ActiveHosts(upd, Today - ThirtyDays)),
     most_updated_packages |-> MostUpdatedPackages(upd),
     recent_activity |-> RecentActivity(upd)]

GetFleetStatistics ==
    /\ stats = Nothing
    /\ stats' = GetFleetStatisticsOf(roster, stat_updates)
    /\ UNCHANGED <<roster, stat_updates, reqVars, aggVars, pkgVars, detVars, searchVars, rpcVars, moreVars>>

\* The caller takes the statistics.
ReturnStatistics ==
    /\ stats # Nothing
    /\ stats' = Nothing
    /\ UNCHANGED <<roster, stat_updates, reqVars, aggVars, pkgVars, detVars, searchVars, rpcVars, moreVars>>

\* ----------------------------------------------------------- claims C13-C14

HasDate(r) == r.update_date # NoDate /\ r.update_date # BadDate

\* The hosts with a record dated at most n days before today.
UpdatedWithin(n) ==
    {h \in Hosts : \E i \in 1..Len(stat_updates) :
        /\ stat_updates[i].hostname = h
        /\ HasDate(stat_updates[i])
        /\ Today - stat_updates[i].update_date <= n}

C14_UndatedOnlyOutOfDateBased ==
    stats # Nothing =>
        /\ stats.kind = "ok"
        /\ stats.total_reports = Len(stat_updates)
        /\ stats.total_packages = Cardinality({r.name : r \in Range(stat_updates)})
        /\ \A r \in Range(stat_updates) :
              \E i \in 1..Len(stats.most_updated_packages) :
                 /\ stats.most_updated_packages[i].package = r.name
                 /\ stats.most_updated_packages[i].update_count =
                       Cardinality({k \in 1..Len(stat_updates) : stat_updates[k].name = r.name})

\* The part of C14 the code does keep: an undated record counts in
\* total_reports and total_packages and in no window.
C14_UndatedStillCounted ==
    /\ stats.kind = "ok"
    /\ Len(stat_updates) = 1
    /\ ~HasDate(stat_updates[1])
    /\ stats.total_reports = 1
    /\ stats.total_packages = 1
    /\ stats.active_hosts_last_30_days = 0
    /\ stats.recent_activity = <<>>

\* =========================================================================
\* search
\* =========================================================================

MaxReports == 2

\* results[:50]
SearchCap == 50

\* relevance_score in tenths: 1.0, 0.9, 0.8 and 0.7.
ScoreExact == 10
ScoreHostname == 9
ScoreName == 8
ScoreOS == 7

\* What search reads of a Host view. Hostnames and operating systems are
\* sequences of pieces, as package names are, so that `in` is a real
\* substring test.
SearchHosts ==
    {[hostname |-> <<"nginx", "-01">>, os |-> <<"ubuntu">>],
     [hostname |-> <<"web", "-01">>, os |-> <<"debian">>]}

SearchPackages == {<<"curl">>, <<"nginx">>, <<"nginx", "-common">>}

\* The reports of one batch: who reported, and the packages updated.
ReportBodies ==
    [host : SearchHosts,
     updated_packages : {<< <<"curl">> >>, << <<"nginx", "-common">>, <<"curl">> >>}]

UpdateReport(id, body) ==
    [id |-> id, hostname |-> body.host.hostname, os |-> body.host.os,
     updated_packages |-> body.updated_packages]

\* One more report than the cap, all of one host: one batch a day.
ManyReports ==
    [i \in 1..(SearchCap + 1) |->
        UpdateReport(i, [host |-> [hostname |-> <<"web", "-01">>, os |-> <<"debian">>],
                         updated_packages |-> << <<"nginx", "-common">> >>])]

\* The lists tools.list_hosts, list_packages (sorted by name) and
\* get_update_reports(limit=100) may return.
HostLists ==
    {o \in UNION {[1..n -> SearchHosts] : n \in 0..Cardinality(SearchHosts)} :
        \A i, j \in DOMAIN o : i # j => o[i] # o[j]}
PackageLists == {SortedByName({[name |-> n] : n \in S}) : S \in SUBSET SearchPackages}
ReportLists ==
    {[i \in 1..Len(bs) |-> UpdateReport(i, bs[i])] :
        bs \in UNION {[1..n -> ReportBodies] : n \in 0..MaxReports}}
    \cup {ManyReports}

Queries == {<<"nginx">>, <<"NGINX", "-01">>, <<"ubuntu">>, <<"curl">>}

\* The result_type values: unset, the three the tool compares with, and the
\* three the tools/list schema names ("hosts, packages, reports").
ResultTypes == {None, "host", "package", "report", "hosts", "packages", "reports"}

\* A sub-call of search: its list, or the error it raises when the backend
\* refuses every connection (its first client request fails and the tool
\* wraps the BackendConnectionError).
SubCall(up, items) ==
    IF up THEN Ok(items) ELSE MCPToolError("BackendConnectionError")

\* `query_lower in text.lower()`
Substring(query_lower, text) == Contains(Lower(text), query_lower)

Max(a, b) == IF a > b THEN a ELSE b

HostMatches(host, q) == Substring(q, host.hostname) \/ Substring(q, host.os)
\* `1.0 if query_lower == host.hostname.lower() else 0.8`
HostScore(host, q) == IF q = Lower(host.hostname) THEN ScoreExact ELSE ScoreName

PackageMatches(package, q) == Substring(q, package.name)
PackageScore(package, q) == IF q = Lower(package.name) THEN ScoreExact ELSE ScoreName

ReportScoreSum(report, q) ==
    (IF Substring(q, report.hostname) THEN ScoreHostname ELSE 0)
    + (IF Substring(q, report.os) THEN ScoreOS ELSE 0)
    + (IF \E i \in 1..Len(report.updated_packages) : Substring(q, report.updated_packages[i])
       THEN ScoreName ELSE 0)
\* match_score: lines 562-570.
ReportScore(report, q) ==
    LET by_hostname == IF Substring(q, report.hostname) THEN Max(0, ScoreHostname) ELSE 0
        by_os == IF Substring(q, report.os) THEN Max(by_hostname, ScoreOS) ELSE by_hostname
    IN IF \E i \in 1..Len(report.updated_packages) : Substring(q, report.updated_packages[i])
       THEN Max(by_os, ScoreName) ELSE by_os

SearchResult(type, data, score) ==
    [result_type |-> type, data |-> data, relevance_score |-> score]

\* `if not result_type or result_type == "host":`
Searches(result_type, category) == result_type = None \/ result_type = category

\* The results one category appends; a failing sub-call is logged and
\* appends nothing.
HostResults(sub, q) ==
    IF sub.kind # "ok" THEN <<>>
    ELSE LET Hit(h) == HostMatches(h, q)
             hits == SelectSeq(sub.items, Hit)
         IN [i \in 1..Len(hits) |-> SearchResult("host", hits[i], HostScore(hits[i], q))]

PackageResults(sub, q) ==
    IF sub.kind # "ok" THEN <<>>
    ELSE LET Hit(p) == PackageMatches(p, q)
             hits == SelectSeq(sub.items, Hit)
         IN [i \in 1..Len(hits) |-> SearchResult("package", hits[i], PackageScore(hits[i], q))]

ReportResults(sub, q) ==
    IF sub.kind # "ok" THEN <<>>
    ELSE LET Hit(r) == ReportScore(r, q) > 0
             hits == SelectSeq(sub.items, Hit)
         IN [i \in 1..Len(hits) |-> SearchResult("report", hits[i], ReportScore(hits[i], q))]

\* `results` before the sort: lines 525-579.
ProducedBy(up, v, query, result_type) ==
    LET q == Lower(query)
    IN (IF Searches(result_type, "host") THEN HostResults(SubCall(up, v.hosts), q) ELSE <<>>)
       \o (IF Searches(result_type, "package")
           THEN PackageResults(SubCall(up, v.packages), q) ELSE <<>>)
       \o (IF Searches(result_type, "report")
           THEN ReportResults(SubCall(up, v.reports), q) ELSE <<>>)

RECURSIVE InsertByScoreAfterEquals(_, _)
InsertByScoreAfterEquals(x, s) ==
    IF s = <<>> THEN <<x>>
    ELSE IF x.relevance_score > Head(s).relevance_score THEN <<x>> \o s
    ELSE <<Head(s)>> \o InsertByScoreAfterEquals(x, Tail(s))

\* results.sort(key=relevance_score, reverse=True): stable, so x, which was
\* appended before every element of s, stays ahead of its equals.
RECURSIVE InsertByScore(_, _)
InsertByScore(x, s) ==
    IF s = <<>> THEN <<x>>
    ELSE IF x.relevance_score >= Head(s).relevance_score THEN <<x>> \o s
    ELSE <<Head(s)>> \o InsertByScore(x, Tail(s))

RECURSIVE SortByScoreDesc(_)
SortByScoreDesc(s) ==
    IF s = <<>> THEN <<>> ELSE InsertByScore(Head(s), SortByScoreDesc(Tail(s)))

\* The SearchResponse: lines 581-591.
SearchResponse(query, results) ==
    LET capped == Slice(SortByScoreDesc(results), 0, SearchCap)
    IN [kind |-> "ok", query |-> query, results |-> capped, total_results |-> Len(capped)]

Search(query, result_type) ==
    /\ found = Nothing
    /\ search_call' = [query |-> query, result_type |-> result_type]
    /\ \E results \in {ProducedBy(backend_up, views, query, result_type)} :
          /\ produced' = results
          /\ found' = SearchResponse(query, results)
    /\ UNCHANGED <<backend_up, views, reqVars, aggVars, pkgVars, detVars, statVars, rpcVars, moreVars>>

\* The caller takes the response.
ReturnFound ==
    /\ found # Nothing
    /\ found' = Nothing
    /\ produced' = <<>>
    /\ search_call' = Nothing
    /\ UNCHANGED <<backend_up, views, reqVars, aggVars, pkgVars, detVars, statVars, rpcVars, moreVars>>

\* ----------------------------------------------------------- claims C15-C18

\* C15: with the backend refusing every connection, a tool call ends in one
\* connectivity error, never in a successful (empty) result; stated of a
\* search of all three categories.
C15_UnreachableIsAnError ==
    (found # Nothing /\ ~backend_up /\ search_call.result_type = None)
        => found.kind = "MCPToolError"

\* Where x stands in `produced`.
ProducedAt(x) == CHOOSE i \in 1..Len(produced) : produced[i] = x

CategoryRank(type) == IF type = "host" THEN 1 ELSE IF type = "package" THEN 2 ELSE 3

\* C16: the list search returns is sorted by relevance_score, highest first;
\* results of equal score stand in the order in which they were produced,
\* hosts before packages before reports; the list is the first 50 of the
\* sorted results at most, and total_results is its length.
C16_SortedStableCapped ==
    found.kind = "ok" =>
        LET res == found.results
        IN /\ \A i \in 1..(Len(res) - 1) : res[i].relevance_score >= res[i + 1].relevance_score
           /\ \A i \in 1..Len(res) : \E k \in 1..Len(produced) : produced[k] = res[i]
           /\ \A i, j \in 1..Len(res) :
                 (i < j /\ res[i].relevance_score = res[j].relevance_score) =>
                    /\ ProducedAt(res[i]) < ProducedAt(res[j])
                    /\ CategoryRank(res[i].result_type) <= CategoryRank(res[j].result_type)
           /\ Len(res) <= 50
           /\ Len(res) = Min(50, Len(produced))
           /\ found.total_results = Len(res)

\* More than 50 matches: the exact package match first, then the 0.8 matches
\* in production order (host, package, reports), the last ones cut.
C16_Witness ==
    /\ found.kind = "ok"
    /\ Len(produced) > 50
    /\ Len(found.results) = 50
    /\ found.total_results = 50
    /\ produced[1].result_type = "host"
    /\ found.results[1].result_type = "package" /\ found.results[1].relevance_score = 10
    /\ found.results[2].result_type = "host" /\ found.results[2].relevance_score = 8
    /\ found.results[3].result_type = "package" /\ found.results[3].relevance_score = 8
    /\ found.results[4].result_type = "report" /\ found.results[4].data.id = 1
    /\ found.results[50].result_type = "report" /\ found.results[50].data.id = 47

\* The scores of the fields of a report that contain the query.
MatchedScores(report, q) ==
    {s \in {7, 8, 9} :
        \/ s = 9 /\ Contains(Lower(report.hostname), q)
        \/ s = 8 /\ \E i \in 1..Len(report.updated_packages) :
                       Contains(Lower(report.updated_packages[i]), q)
        \/ s = 7 /\ Contains(Lower(report.os), q)}

\* C17: a host result scores 1.0 when the lowercased query equals the
\* hostname and 0.8 otherwise, a package result likewise on its name, and a
\* report result scores the highest of 0.9 (hostname), 0.8 (a package name)
\* and 0.7 (OS) among the fields that contain the query, at least one of
\* which does.
C17_ScoreLadder ==
    found.kind = "ok" =>
        \A i \in 1..Len(found.results) :
            LET r == found.results[i]
                q == Lower(search_call.query)
            IN /\ r.result_type = "host" =>
                     r.relevance_score = IF q = r.data.hostname THEN 10 ELSE 8
               /\ r.result_type = "package" =>
                     r.relevance_score = IF q = r.data.name THEN 10 ELSE 8
               /\ r.result_type = "report" =>
                     /\ MatchedScores(r.data, q) # {}
                     /\ r.relevance_score \in MatchedScores(r.data, q)
                     /\ \A s \in MatchedScores(r.data, q) : s <= r.relevance_score

\* A report whose hostname and package both contain the query scores 0.9,
\* next to an exact host match and a report left out.
C17_Witness ==
    /\ found.kind = "ok"
    /\ search_call = [query |-> <<"nginx">>, result_type |-> None]
    /\ Len(views.reports) = 2
    /\ \E i \in 1..Len(found.results) :
          /\ found.results[i].result_type = "report"
          /\ MatchedScores(found.results[i].data, <<"nginx">>) = {8, 9}
          /\ found.results[i].relevance_score = 9
    /\ \E i \in 1..Len(found.results) :
          /\ found.results[i].result_type = "package"
          /\ found.results[i].relevance_score = 10
    /\ \E k \in 1..2 : \A i \in 1..Len(found.results) : found.results[i].data # views.reports[k]

\* The category a documented result_type value names.
CategoryOf(result_type) ==
    IF result_type \in {"host", "hosts"} THEN "host"
    ELSE IF result_type \in {"package", "packages"} THEN "package"
    ELSE "report"

\* C18: with result_type set to a documented value, search returns the
\* matches of that category and nothing else: the results an unrestricted
\* search produces for the category, sorted and capped.
C18_ResultTypeRestricts ==
    (found.kind = "ok" /\ backend_up /\ search_call.result_type # None) =>
        LET category == CategoryOf(search_call.result_type)
            InCategory(r) == r.result_type = category
            all == ProducedBy(backend_up, views, search_call.query, None)
        IN /\ \A i \in 1..Len(found.results) : found.results[i].result_type = category
           /\ found.results = Slice(SortByScoreDesc(SelectSeq(all, InCategory)), 0, 50)

\* The part of C18 the code does keep: the values "host", "package" and
\* "report" restrict the search, and an unset result_type searches all three.
C18_SingularRestricts ==
    /\ found.kind = "ok"
    /\ search_call.result_type = "package"
    /\ Len(views.hosts) = 2 /\ Len(views.reports) = 2
    /\ Len(found.results) = 2
    /\ \A i \in 1..2 : found.results[i].result_type = "package"

\* =========================================================================
\* POST /mcp
\* =========================================================================

MaxRequestId == 3

\* The JSON-RPC error codes in use.
MethodNotFound == -32601
InternalError == -32603
ServerError == -32000

\* The keys of tool_mapping, which are the tool methods of MCPTools.
ToolNames ==
    {"health_check", "list_hosts", "get_host_details", "get_update_reports",
     "list_packages", "get_package_details", "get_fleet_statistics", "search",
     "get_host_reports"}

\* The methods requests name: the four the endpoint implements, two tool
\* names, and a name nothing implements.
Methods == {"tools/list", "tools/call", "initialize", "ping", "list_hosts", "search", "bogus"}

\* request.params: absent, or an object whose "name" is absent, a tool, or
\* not a tool.
NoParams == [present |-> FALSE, name |-> None]
Params == {NoParams} \cup {[present |-> TRUE, name |-> n] : n \in ToolNames \cup {None, "bogus_tool"}}

RpcRequests == [method : Methods, params : Params, id : 1..MaxRequestId]

\* The POST routes of the app in the order of their registration; two of them
\* are registered on /mcp.
Routes ==
    <<[path |-> "/mcp", endpoint |-> "mcp_endpoint"],
      [path |-> "/sse", endpoint |-> "sse_endpoint"],
      [path |-> "/mcp", endpoint |-> "mcp_protocol"]>>

\* The router hands a request to the first route that matches it.
Dispatch(path) ==
    Routes[CHOOSE i \in 1..Len(Routes) :
              /\ Routes[i].path = path
              /\ \A j \in 1..(i - 1) : Routes[j].path # path].endpoint

NoResult == [kind |-> "none"]
NoError == [code |-> 0, message |-> None]
NotCalled == [name |-> None, outcome |-> None]

\* MCPResponse(...).model_dump(), and a JSONResponse, with the HTTP status.
RpcResult(id, value) ==
    [status_code |-> 200, id |-> id, result |-> value, error |-> NoError]
RpcError(http_status, id, code, message) ==
    [status_code |-> http_status, id |-> id, result |-> NoResult,
     error |-> [code |-> code, message |-> message]]

\* What the tool handed back, as the endpoint wraps it.
ToolResult(name) == [kind |-> "tool result", tool |-> name]

\* What a tool may raise: the MCPToolError the tools wrap their failures in,
\* a TypeError from `tool_func(**tool_arguments)` on arguments the tool does
\* not take, and a client error that a tool lets through.
ToolExceptions == {"MCPToolError", "TypeError", "BackendConnectionError"}
ToolOutcomes == {"returns"} \cup ToolExceptions

ToolExecutionErrorWithoutId(request, exc) ==
    RpcError(200, 0, InternalError, "Internal error")
\* The inner `except Exception as e:` of the tools/call branch.
ToolExecutionError(request, exc) ==
    RpcError(200, request.id, InternalError, "Internal error")

\* mcp_endpoint: lines 171-428. The HTTPExceptions of the tools/call branch
\* are raised inside the outer `try` and caught by its `except Exception`.
McpEndpoint(request, outcome) ==
    IF request.method = "tools/list"
    THEN [response |-> RpcResult(request.id, [kind |-> "tools", tools |-> ToolNames]),
          tool |-> NotCalled]
    ELSE IF request.method = "tools/call"
    THEN IF ~request.params.present \/ request.params.name = None
            \/ request.params.name \notin ToolNames
         THEN [response |-> RpcError(200, request.id, InternalError, "Internal error"),
               tool |-> NotCalled]
         ELSE [response |-> IF outcome = "returns"
                            THEN RpcResult(request.id, ToolResult(request.params.name))
                            ELSE ToolExecutionError(request, outcome),
               tool |-> [name |-> request.params.name, outcome |-> outcome]]
    ELSE IF request.method = "initialize"
    THEN [response |-> RpcResult(request.id, [kind |-> "serverInfo"]), tool |-> NotCalled]
    ELSE IF request.method = "ping"
    THEN [response |-> RpcResult(request.id, [kind |-> "empty"]), tool |-> NotCalled]
    ELSE [response |-> RpcError(200, request.id, MethodNotFound, "Method not found"),
          tool |-> NotCalled]

\* mcp_protocol: lines 668-717. Its 400 and 500 answers carry no id.
McpProtocol(request, outcome) ==
    IF request.method \notin ToolNames
    THEN [response |-> RpcError(400, 0, MethodNotFound, "Method not found"),
          tool |-> NotCalled]
    ELSE [response |-> IF outcome = "returns"
                       THEN RpcResult(request.id, ToolResult(request.method))
                       ELSE RpcError(500, 0, ServerError, "tool error"),
          tool |-> [name |-> request.method, outcome |-> outcome]]

Serve(endpoint, request, outcome) ==
    IF endpoint = "mcp_endpoint" THEN McpEndpoint(request, outcome)
    ELSE McpProtocol(request, outcome)

\* One POST /mcp; `outcome` is what the tool does if it is invoked.
PostMcp(request, outcome) ==
    /\ rpc_response = Nothing
    /\ rpc_request' = request
    /\ rpc_handler' = Dispatch("/mcp")
    /\ \E served \in {Serve(Dispatch("/mcp"), request, outcome)} :
          /\ rpc_response' = served.response
          /\ rpc_tool' = served.tool
    /\ UNCHANGED <<rpc_after_raise, reqVars, aggVars, pkgVars, detVars, statVars, searchVars, moreVars>>

\* The response is sent.
SendResponse ==
    /\ rpc_response # Nothing
    /\ rpc_request' = Nothing
    /\ rpc_handler' = None
    /\ rpc_tool' = NotCalled
    /\ rpc_response' = Nothing
    /\ rpc_after_raise' = (rpc_tool.outcome \in ToolExceptions)
    /\ UNCHANGED <<reqVars, aggVars, pkgVars, detVars, statVars, searchVars, moreVars>>

\* ----------------------------------------------------------- claims C19-C20

\* C19: a request naming an unknown method, and a tools/call naming an
\* unknown tool, are both answered with an error whose code is -32601.
C19_UnknownIsNotFound ==
    rpc_response # Nothing =>
        /\ rpc_request.method \notin {"tools/list", "tools/call", "initialize", "ping"}
              \cup ToolNames
              => rpc_response.error.code = -32601
        /\ (/\ rpc_request.method = "tools/call"
            /\ rpc_request.params.present
            /\ rpc_request.params.name \notin ToolNames \cup {None})
              => rpc_response.error.code = -32601

\* The part of C19 the code does keep: an unknown method is answered -32601.
C19_UnknownMethod ==
    /\ rpc_response # Nothing
    /\ rpc_request.method = "bogus"
    /\ rpc_response.error.code = -32601
    /\ rpc_response.id = rpc_request.id

\* C20: a request to /mcp whose method is the name of a tool invokes that
\* tool and is answered with the tool's result and the request's id.
C20_ToolNameAsMethod ==
    (rpc_response # Nothing /\ rpc_request.method \in ToolNames) =>
        /\ rpc_tool.name = rpc_request.method
        /\ rpc_response.id = rpc_request.id
        /\ rpc_tool.outcome = "returns" =>
              rpc_response.result = [kind |-> "tool result", tool |-> rpc_request.method]

\* =========================================================================
\* _make_request: the backoff schedule and the retry budget
\* =========================================================================

\* C24: the wait before retry number n (n = 0 for the first retry) is 2^n
\* seconds, after a 5xx response and after a connection failure alike: the
\* i-th sleep follows the i-th attempt, which was a transient failure, and
\* lasts 2^(i-1) seconds; a finished request slept once fewer than it made
\* attempts (no sleep follows the last attempt), so a request that exhausts
\* max_retries = 3 slept 1, 2 and 4 seconds in that order.
C24_BackoffSchedule ==
    /\ \A i \in 1..Len(waits) :
          /\ waits[i] = Pow2(i - 1)
          /\ i <= Len(attempts)
          /\ IsTransient(attempts[i])
    /\ pc = "request" => Len(waits) = Len(attempts)
    /\ pc = "done" => Len(waits) = Len(attempts) - 1
    /\ (pc = "done" /\ max_retries = 3 /\ Len(attempts) = 4) => waits = <<1, 2, 4>>

\* A request that exhausted max_retries = 3 on a mix of 5xx responses and
\* connection failures.
C24_Witness ==
    /\ pc = "done"
    /\ max_retries = 3
    /\ Len(attempts) = 4
    /\ Is5xx(attempts[1]) /\ IsConnectFailure(attempts[2])
    /\ IsConnectFailure(attempts[3]) /\ Is5xx(attempts[4])
    /\ waits = <<1, 2, 4>>
    /\ result.kind = "BackendHTTPError"

\* One attempt of the running request ends: client.request returns or
\* raises. The client is built with timeout = config.request_timeout, and
\* the sleep before a retry is finite, so an attempt in flight always ends.
AttemptEnds ==
    \/ \E status \in Statuses, body \in Bodies : ReceiveResponse(status, body)
    \/ \E exc \in ConnectExceptions : ConnectionFails(exc)
    \/ UnexpectedFailure

\* No attempt ended in an exception other than a connection failure or a
\* timeout.
OnlyBackendOutcomes == \A i \in 1..Len(attempts) : attempts[i].kind # "OtherException"

\* C29: whatever mix of 5xx responses and connection failures the attempts
\* meet, one call makes at most max_retries + 1 attempts in total: the
\* failures of both classes draw on the one retry_count, which equals the
\* number of failed attempts retried so far and never passes max_retries.
\* Every call in flight comes to an end, and a call that ended on what the
\* backend produced ended with a response, a BackendHTTPError or a
\* BackendConnectionError.
C29_SharedBudgetTerminates ==
    /\ [](/\ Len(attempts) <= max_retries + 1
          /\ retry_count <= max_retries
          /\ pc = "request" =>
                /\ Len(attempts) = retry_count
                /\ AllAttempts(IsTransient)
          /\ pc = "done" =>
                /\ Len(attempts) = retry_count + 1
                /\ OnlyBackendOutcomes =>
                      result.kind \in {"response", "BackendHTTPError", "BackendConnectionError"})
    /\ (pc = "request") ~> (pc = "done")

\* The budget of 3 retries spent on two 5xx responses and one timeout, and
\* the fourth attempt failing to connect.
C29_Witness ==
    /\ pc = "done"
    /\ max_retries = 3
    /\ Len(attempts) = 4
    /\ Is5xx(attempts[1]) /\ Is5xx(attempts[2])
    /\ attempts[3].kind = "TimeoutException"
    /\ attempts[4].kind = "ConnectError"
    /\ result = BackendConnectionError

\* =========================================================================
\* POST /mcp: a tool that raises
\* =========================================================================

\* C21: whatever a tool raises during a tools/call, the endpoint answers
\* with a JSON-RPC response of HTTP status 200 that carries the request's
\* id, an error object of code -32603 and no result; and the request that
\* follows one whose tool raised is answered as on a fresh server: a tool
\* that returns gets its result back, tools/list its list, an unknown method
\* its -32601.
C21_ToolFailureContained ==
    /\ (rpc_response # Nothing /\ rpc_request.method = "tools/call"
            /\ rpc_tool.outcome \in ToolExceptions) =>
          /\ rpc_response.status_code = 200
          /\ rpc_response.id = rpc_request.id
          /\ rpc_response.error.code = -32603
          /\ rpc_response.result = NoResult
    /\ (rpc_response # Nothing /\ rpc_after_raise) =>
          /\ rpc_response.id = rpc_request.id
          /\ rpc_tool.outcome = "returns" =>
                rpc_response = RpcResult(rpc_request.id, ToolResult(rpc_tool.name))
          /\ rpc_request.method = "tools/list" =>
                rpc_response.result = [kind |-> "tools", tools |-> ToolNames]
          /\ rpc_request.method = "bogus" => rpc_response.error.code = -32601

\* A tools/call whose tool raised a TypeError, served right after a request
\* whose tool had raised as well.
C21_Witness ==
    /\ rpc_after_raise
    /\ rpc_response # Nothing
    /\ rpc_request.method = "tools/call"
    /\ rpc_request.id = 2
    /\ rpc_tool = [name |-> "list_hosts", outcome |-> "TypeError"]
    /\ rpc_response = RpcError(200, 2, -32603, "Internal error")

\* =========================================================================
\* health_check: the tool over client.health_check over _make_request
\* =========================================================================

\* response.json() of GET /health: the backend answers "healthy" with the
\* database connected, with or without telemetry (health.py:31-53).
HealthOf(body) ==
    [status |-> "healthy", database |-> "connected",
     telemetry |-> [enabled |-> (body = "body-a")]]

\* health_check of the tools, given how client.health_check ended: lines
\* 43-80.
HealthCheckOf(res) ==
    IF res.kind = "response"
    THEN [kind |-> "ok",
          status |-> HealthOf(res.body).status,
          database |-> HealthOf(res.body).database,
          telemetry |-> HealthOf(res.body).telemetry,
          mcp_server |-> [status |-> "healthy", backend_connected |-> TRUE]]
    ELSE IF res.kind = "BackendConnectionError"
    THEN [kind |-> "ok",
          status |-> "unhealthy",
          database |-> "unknown",
          telemetry |-> [enabled |-> FALSE],
          mcp_server |-> [status |-> "degraded", backend_connected |-> FALSE]]
    ELSE MCPToolError("Health check failed")

\* The tool gets the outcome of its GET /health request and answers.
HealthCheck ==
    /\ pc = "done"
    /\ health = Nothing
    /\ health' = HealthCheckOf(result)
    /\ UNCHANGED <<reqVars, aggVars, pkgVars, detVars, statVars, searchVars, rpcVars, hostVars, reportVars, startVars, raceVars>>

\* The caller takes the answer.
ReturnHealth ==
    /\ health # Nothing
    /\ health' = Nothing
    /\ pc' = "idle"
    /\ UNCHANGED <<max_retries, retry_count, attempts, waits, result,
                   aggVars, pkgVars, detVars, statVars, searchVars, rpcVars, hostVars, reportVars, startVars, raceVars>>

\* C22: when the health request fails the tool does not raise but answers
\* "unhealthy" with mcp_server "degraded" and backend_connected false, and
\* when the request succeeds it answers the backend's status with
\* mcp_server "healthy" and backend_connected true. The failure taken here
\* is the backend answering 5xx to the last attempt, as GET /health does
\* with 503 when its database is down.
C22_HealthNeverRaises ==
    (health # Nothing /\ OnlyBackendOutcomes) =>
        IF result.kind = "response"
        THEN /\ health.kind = "ok"
             /\ health.status = HealthOf(result.body).status
             /\ health.mcp_server = [status |-> "healthy", backend_connected |-> TRUE]
        ELSE Is5xx(Last(attempts)) =>
                /\ health.kind = "ok"
                /\ health.status = "unhealthy"
                /\ health.mcp_server = [status |-> "degraded", backend_connected |-> FALSE]

\* The part of C22 the code keeps: a backend that cannot be reached is
\* reported as degraded, and a healthy one as healthy.
C22_UnreachableIsDegraded ==
    (health # Nothing /\ OnlyBackendOutcomes) =>
        /\ result.kind = "response" =>
              /\ health.kind = "ok"
              /\ health.status = "healthy"
              /\ health.mcp_server = [status |-> "healthy", backend_connected |-> TRUE]
        /\ result.kind = "BackendConnectionError" =>
              /\ health.kind = "ok"
              /\ health.status = "unhealthy"
              /\ health.mcp_server = [status |-> "degraded", backend_connected |-> FALSE]

\* =========================================================================
\* GET /last-updates, list_hosts and get_host_details
\* =========================================================================

HostOSes == {"ubuntu", "debian"}
\* A hostname argument: the hosts that may have reported, and one that never
\* does.
DetailHosts == Hosts \cup {"ghost"}

\* `limit=1000` of the history request behind packages_count.
HostHistoryLimit == 1000
\* packages_count = None
NoCount == -1

RowsOf(table, hostname) ==
    LET Mine(r) == r.hostname = hostname
    IN SelectSeq(table, Mine)

LatestById(rows) == rows[Len(rows)]
\* .order_by(PackageUpdate.update_date.desc(), PackageUpdate.id.desc()).first()
LatestOf(rows) == OrderByDateIdDesc(rows)[1]

\* GET /last-updates: one entry per host, in the order SELECT DISTINCT lists
\* the hosts.
LastUpdates(table, order) ==
    [i \in 1..Len(order) |->
        LET update == LatestOf(RowsOf(table, order[i]))
        IN [hostname |-> order[i], os |-> update.os, last_update |-> update.update_date]]

\* How the GET /last-updates request of a call ends: answered, or every
\* attempt failing to connect.
InfoFaults == {"none", "connect"}

\* client.get_host_info, with how its request ends.
GetHostInfo(table, order, fault) ==
    IF fault = "connect" THEN ConnectionError
    ELSE IF fault = "503" THEN HTTPError(503)
    ELSE Ok(LastUpdates(table, order))

\* The request of get_host_history(hostname=..., limit=1000).
CountRequest(hostname) ==
    [hostname |-> hostname, date_from |-> NoDate, date_to |-> NoDate,
     package |-> NoPackage, limit |-> HostHistoryLimit, offset |-> 0]

\* The inner try of both tools: the distinct names of the page, or None
\* when the request raises.
PackagesCount(history) ==
    IF history.kind = "ok"
    THEN Cardinality({history.items[i].name : i \in 1..Len(history.items)})
    ELSE NoCount

\* Host(hostname=..., os=..., last_update=..., packages_count=...)
HostView(info, table, fault) ==
    [hostname |-> info.hostname, os |-> info.os, last_update |-> info.last_update,
     packages_count |-> PackagesCount(GetHostHistory(table, fault,
                                                     CountRequest(info.hostname)))]

HostViewsWithoutFailed(table, infos, fault) ==
    LET Counted(v) == v.packages_count # NoCount
    IN SelectSeq([i \in 1..Len(infos) |-> HostView(infos[i], table, fault[infos[i].hostname])],
                 Counted)
\* The loop of list_hosts: one Host appended per info, whatever its count.
HostViews(table, infos, fault) ==
    [i \in 1..Len(infos) |-> HostView(infos[i], table, fault[infos[i].hostname])]

\* list_hosts: lines 89-131.
ListHostsOf(table, order, info_fault, fault) ==
    LET host_infos == GetHostInfo(table, order, info_fault)
    IN IF host_infos.kind # "ok"
       THEN MCPToolError("Failed to list hosts")
       ELSE [kind |-> "ok", items |-> HostViews(table, host_infos.items, fault)]

\* get_host_details: lines 139-188. The not-found error is raised inside the
\* try and leaves wrapped by the handler.
GetHostDetailsOf(table, hostname, order, info_fault, fault) ==
    LET host_infos == GetHostInfo(table, order, info_fault)
    IN IF host_infos.kind # "ok"
       THEN MCPToolError("Failed to get host details")
       ELSE LET Mine(info) == info.hostname = hostname
                mine == SelectSeq(host_infos.items, Mine)
            IN IF mine = <<>>
               THEN MCPToolError("Failed to get host details: Host not found")
               ELSE [kind |-> "ok", host |-> HostView(mine[1], table, fault[hostname])]

HostCall(tool, hostname, order, info_fault, fault) ==
    [tool |-> tool, hostname |-> hostname, order |-> order,
     info_fault |-> info_fault, fault |-> fault]

ListHosts(order, info_fault, fault) ==
    /\ host_answer = Nothing
    /\ host_call' = HostCall("list_hosts", None, order, info_fault, fault)
    /\ host_answer' = ListHostsOf(records, order, info_fault, fault)
    /\ UNCHANGED <<reqVars, aggVars, pkgVars, detVars, statVars, searchVars, rpcVars,
                   healthVars, reportVars, startVars, raceVars>>

GetHostDetails(hostname, order, info_fault, fault) ==
    /\ host_answer = Nothing
    /\ host_call' = HostCall("get_host_details", hostname, order, info_fault, fault)
    /\ host_answer' = GetHostDetailsOf(records, hostname, order, info_fault, fault)
    /\ UNCHANGED <<reqVars, aggVars, pkgVars, detVars, statVars, searchVars, rpcVars,
                   healthVars, reportVars, startVars, raceVars>>

\* The caller takes the answer.
ReturnHosts ==
    /\ host_answer # Nothing
    /\ host_call' = Nothing
    /\ host_answer' = Nothing
    /\ UNCHANGED <<reqVars, aggVars, pkgVars, detVars, statVars, searchVars, rpcVars,
                   healthVars, reportVars, startVars, raceVars>>

\* ----------------------------------------------------------- claims C23, C27

\* The dates and the names of a host's rows in the table.
DatesOfHost(hostname) ==
    {records[i].update_date : i \in {j \in 1..Len(records) : records[j].hostname = hostname}}
NamesOfHost(hostname) ==
    {records[i].name : i \in {j \in 1..Len(records) : records[j].hostname = hostname}}

\* C23: with the last-update list fetched, get_host_details(hostname)
\* answers, for a host with at least one row, a last_update that is the
\* greatest update_date among the host's rows and the os of a row carrying
\* that date; for a hostname without a row it fails with the host-not-found
\* error.
C23_LastUpdateIsMax ==
    (/\ host_answer # Nothing
     /\ host_call.tool = "get_host_details"
     /\ host_call.info_fault = "none") =>
        IF DatesOfHost(host_call.hostname) = {}
        THEN host_answer = MCPToolError("Failed to get host details: Host not found")
        ELSE /\ host_answer.kind = "ok"
             /\ host_answer.host.hostname = host_call.hostname
             /\ host_answer.host.last_update \in DatesOfHost(host_call.hostname)
             /\ \A d \in DatesOfHost(host_call.hostname) : d <= host_answer.host.last_update
             /\ \E i \in 1..Len(records) :
                   /\ records[i].hostname = host_call.hostname
                   /\ records[i].update_date = host_answer.host.last_update
                   /\ records[i].os = host_answer.host.os

\* A host whose newest row was reported before an older one, under another
\* os.
C23_Witness ==
    /\ host_answer # Nothing
    /\ host_call.tool = "get_host_details"
    /\ host_call.hostname = "web-01"
    /\ host_call.info_fault = "none"
    /\ Len(records) = 2
    /\ records[1].hostname = "web-01" /\ records[2].hostname = "web-01"
    /\ records[1].update_date = 2 /\ records[1].os = "debian"
    /\ records[2].update_date = 1 /\ records[2].os = "ubuntu"
    /\ host_answer.kind = "ok"
    /\ host_answer.host.last_update = 2
    /\ host_answer.host.os = "debian"

\* C27: with the last-update list fetched, list_hosts answers one view per
\* entry of that list, in its order; the packages_count of a host whose
\* history request succeeded is the number of distinct names among its rows
\* (all of them fit the 1000 of the request), and a host whose history
\* request failed is listed all the same, its packages_count unset, next to
\* the other hosts and their counts.
C27_OneViewPerHost ==
    (/\ host_answer # Nothing
     /\ host_call.tool = "list_hosts"
     /\ host_call.info_fault = "none") =>
        /\ host_answer.kind = "ok"
        /\ Len(host_answer.items) = Len(host_call.order)
        /\ \A i \in 1..Len(host_call.order) :
              LET view == host_answer.items[i]
                  h == host_call.order[i]
              IN /\ view.hostname = h
                 /\ view.last_update \in DatesOfHost(h)
                 /\ view.packages_count =
                       IF host_call.fault[h] = "none"
                       THEN Cardinality(NamesOfHost(h))
                       ELSE NoCount

\* Two hosts listed, the history request of the first one failing.
C27_Witness ==
    /\ host_answer # Nothing
    /\ host_call.tool = "list_hosts"
    /\ host_call.info_fault = "none"
    /\ host_call.order = <<"db-01", "web-01">>
    /\ host_call.fault["db-01"] = "connect"
    /\ host_call.fault["web-01"] = "none"
    /\ host_answer.kind = "ok"
    /\ Len(host_answer.items) = 2
    /\ host_answer.items[1].hostname = "db-01"
    /\ host_answer.items[1].packages_count = NoCount
    /\ host_answer.items[2].hostname = "web-01"
    /\ host_answer.items[2].packages_count = 1

\* One host with two rows of different names: a count of 2.
C27_DistinctNames ==
    /\ host_answer # Nothing
    /\ host_call.tool = "list_hosts"
    /\ host_answer.kind = "ok"
    /\ Len(host_answer.items) = 1
    /\ host_answer.items[1].packages_count = 2

\* =========================================================================
\* get_update_reports and get_host_reports
\* =========================================================================

\* The updates of one (hostname, update_date) key, in the order of `upd`:
\* reports_map[host][update_date].
GroupOf(upd, hostname, update_date) ==
    LET Mine(u) == u.hostname = hostname /\ u.update_date = update_date
    IN SelectSeq(upd, Mine)

\* PackageUpdate(name=..., old_version=..., new_version=...)
PackageOf(u) == [name |-> u.name, new_version |-> u.new_version]

\* The keys of reports_map in the order the two loops visit them: hosts in
\* the order of their first update, and under each host its dates in the
\* order of their first update.
RECURSIVE GroupKeys(_, _)
GroupKeys(upd, hosts) ==
    IF hosts = <<>> THEN <<>>
    ELSE LET Mine(u) == u.hostname = Head(hosts)
             mine == SelectSeq(upd, Mine)
             dates == FirstSeenOrder([i \in 1..Len(mine) |-> mine[i].update_date])
         IN [i \in 1..Len(dates) |-> [hostname |-> Head(hosts), update_date |-> dates[i]]]
            \o GroupKeys(upd, Tail(hosts))

\* The reports in the order they are appended, report_id counting from 1;
\* the os is that of the first update of the group.
GroupedReports(upd) ==
    LET keys == GroupKeys(upd, FirstSeenOrder([i \in 1..Len(upd) |-> upd[i].hostname]))
    IN [i \in 1..Len(keys) |->
           LET group == GroupOf(upd, keys[i].hostname, keys[i].update_date)
           IN [id |-> i, hostname |-> keys[i].hostname, os |-> group[1].os,
               update_date |-> keys[i].update_date,
               updated_packages |-> [j \in 1..Len(group) |-> PackageOf(group[j])]]]

\* get_update_reports: lines 203-265. limit and offset go to get_all_updates
\* as they are, and what comes back is grouped and sorted by date.
GetUpdateReportsOf(table, c) ==
    LET fetched_updates == GetAllUpdatesOf(table, c).out
    IN IF fetched_updates.kind # "ok"
       THEN MCPToolError("Failed to get update reports")
       ELSE [kind |-> "ok", items |-> SortByDateDesc(GroupedReports(fetched_updates.items))]

\* get_update_reports(hostname, limit, offset), and get_host_reports, which
\* hands its three arguments on.
GetUpdateReports(c) ==
    /\ report_list = Nothing
    /\ report_call' = c
    /\ report_list' = GetUpdateReportsOf(records, c)
    /\ UNCHANGED <<reqVars, aggVars, pkgVars, detVars, statVars, searchVars, rpcVars,
                   healthVars, hostVars, startVars, raceVars>>

\* The caller takes the reports.
ReturnReports ==
    /\ report_list # Nothing
    /\ report_call' = Nothing
    /\ report_list' = Nothing
    /\ UNCHANGED <<reqVars, aggVars, pkgVars, detVars, statVars, searchVars, rpcVars,
                   healthVars, hostVars, startVars, raceVars>>

\* ---------------------------------------------------------------- claim C25

\* The rows the backend holds for the call: all of them, or those of the
\* hostname given.
RowsFor(c) ==
    LET Mine(r) == c.hostname # None => r.hostname = c.hostname
    IN SelectSeq(records, Mine)

\* The (hostname, update_date) batches among these rows.
BatchesFor(c) ==
    {<<RowsFor(c)[i].hostname, RowsFor(c)[i].update_date>> : i \in 1..Len(RowsFor(c))}

AllAnswered(c) == \A h \in DOMAIN c.fault : c.fault[h] = "none"

\* C25: limit and offset count reports. With every request answered, a call
\* returns the reports left after skipping offset of the batches, at most
\* limit of them, and every report it returns lists all the package updates
\* the backend holds for its (hostname, update_date) batch.
C25_PaginationCountsReports ==
    (report_list # Nothing /\ AllAnswered(report_call)) =>
        /\ report_list.kind = "ok"
        /\ Len(report_list.items) <= report_call.limit
        /\ Len(report_list.items) =
              Min(report_call.limit,
                  Max(0, Cardinality(BatchesFor(report_call)) - report_call.offset))
        /\ \A i \in 1..Len(report_list.items) :
              LET report == report_list.items[i]
              IN Len(report.updated_packages) =
                    Len(GroupOf(records, report.hostname, report.update_date))

\* The part of C25 the code keeps: never more than limit reports.
C25_AtMostLimit ==
    (report_list # Nothing /\ report_list.kind = "ok") =>
        Len(report_list.items) <= report_call.limit

\* =========================================================================
\* validate_config and the lifespan of the MCP server
\* =========================================================================

MaxServed == 2

\* Backend URLs, character by character: the two accepted schemes, another
\* scheme, the accepted scheme in upper case, one slash short, and no scheme.
BackendURLs ==
    {<<"h", "t", "t", "p", ":", "/", "/", "b">>,
     <<"h", "t", "t", "p", "s", ":", "/", "/", "b">>,
     <<"f", "t", "p", ":", "/", "/", "b">>,
     <<"H", "T", "T", "P", ":", "/", "/", "b">>,
     <<"h", "t", "t", "p", ":", "/", "b">>,
     <<"b">>}
Ports == {0, 1, 8001, 65535, 65536}
\* request_timeout and otel_trace_sample_rate are floats; they are held in
\* thousandths.
Timeouts == {-1000, 0, 1, 30000}
RetryCounts == {-1, 0, 3}
ExporterTypes == {"console", "jaeger", "otlp", "zipkin"}
SampleRates == {-1, 0, 500, 1000, 1001}

Configs ==
    [fleetpulse_backend_url : BackendURLs, mcp_port : Ports, request_timeout : Timeouts,
     max_retries : RetryCounts, otel_exporter_type : ExporterTypes,
     otel_trace_sample_rate : SampleRates]

\* str.startswith(prefix)
StartsWith(text, prefix) ==
    Len(text) >= Len(prefix) /\ SubSeq(text, 1, Len(prefix)) = prefix

\* url.startswith(('http://', 'https://'))
HasHTTPScheme(url) ==
    \/ StartsWith(url, <<"h", "t", "t", "p", ":", "/", "/">>)
    \/ StartsWith(url, <<"h", "t", "t", "p", "s", ":", "/", "/">>)

ValidateConfigWithoutSampleRate(cfg) ==
    IF ~HasHTTPScheme(cfg.fleetpulse_backend_url) THEN "Invalid backend URL format"
    ELSE IF ~(1 <= cfg.mcp_port /\ cfg.mcp_port <= 65535) THEN "Invalid port number"
    ELSE IF cfg.request_timeout <= 0 THEN "Invalid request timeout"
    ELSE IF cfg.max_retries < 0 THEN "Invalid max retries"
    ELSE IF cfg.otel_exporter_type \notin {"console", "jaeger", "otlp"}
    THEN "Invalid exporter type"
    ELSE None
\* validate_config: the ValueError it raises, or None when it returns.
ValidateConfig(cfg) ==
    IF ~HasHTTPScheme(cfg.fleetpulse_backend_url) THEN "Invalid backend URL format"
    ELSE IF ~(1 <= cfg.mcp_port /\ cfg.mcp_port <= 65535) THEN "Invalid port number"
    ELSE IF cfg.request_timeout <= 0 THEN "Invalid request timeout"
    ELSE IF cfg.max_retries < 0 THEN "Invalid max retries"
    ELSE IF cfg.otel_exporter_type \notin {"console", "jaeger", "otlp"}
    THEN "Invalid exporter type"
    ELSE IF ~(0 <= cfg.otel_trace_sample_rate /\ cfg.otel_trace_sample_rate <= 1000)
    THEN "Invalid trace sample rate"
    ELSE None

\* The startup half of lifespan: a ValueError of validate_config is logged
\* and re-raised; a backend that cannot be reached is only warned about.
Startup(is_connected) ==
    /\ server = "starting"
    /\ server' = IF ValidateConfig(mcp_config) # None THEN "rejected" ELSE "serving"
    /\ UNCHANGED <<mcp_config, served_count, reqVars, aggVars, pkgVars, detVars, statVars,
                   searchVars, rpcVars, healthVars, hostVars, reportVars, raceVars>>

\* The application handles a request: only after the lifespan has yielded.
HandleRequest ==
    /\ server = "serving"
    /\ served_count < MaxServed
    /\ served_count' = served_count + 1
    /\ UNCHANGED <<mcp_config, server, reqVars, aggVars, pkgVars, detVars, statVars,
                   searchVars, rpcVars, healthVars, hostVars, reportVars, raceVars>>

\* The shutdown half of lifespan.
Shutdown ==
    /\ server = "serving"
    /\ server' = "stopped"
    /\ UNCHANGED <<mcp_config, served_count, reqVars, aggVars, pkgVars, detVars, statVars,
                   searchVars, rpcVars, healthVars, hostVars, reportVars, raceVars>>

\* ---------------------------------------------------------------- claim C26

\* One of the four settings the claim names is invalid.
OneOfFourInvalid ==
    \/ ~HasHTTPScheme(mcp_config.fleetpulse_backend_url)
    \/ mcp_config.request_timeout <= 0
    \/ mcp_config.max_retries < 0
    \/ mcp_config.otel_trace_sample_rate < 0
    \/ mcp_config.otel_trace_sample_rate > 1000

\* The two settings validate_config checks besides.
PortAndExporterValid ==
    /\ mcp_config.mcp_port \in 1..65535
    /\ mcp_config.otel_exporter_type \in {"console", "jaeger", "otlp"}

\* C26 as stated: startup is rejected, no request served, whenever the
\* backend URL lacks the http:// or https:// prefix, the timeout is <= 0,
\* max_retries is < 0 or the sampling rate is outside [0.0, 1.0]; and with
\* all four valid the validation passes.
C26_FourSettingsDecide ==
    server # "starting" =>
        /\ OneOfFourInvalid => (server = "rejected" /\ served_count = 0)
        /\ ~OneOfFourInvalid => server # "rejected"

\* C26 as it holds: startup is rejected, no request served, whenever one of
\* the four settings is invalid; the validation passes when the four are
\* valid and, besides, the port lies in 1..65535 and the exporter type is one
\* of console, jaeger and otlp.
C26_SixSettingsDecide ==
    server # "starting" =>
        /\ OneOfFourInvalid => (server = "rejected" /\ served_count = 0)
        /\ (~OneOfFourInvalid /\ PortAndExporterValid) => server # "rejected"
        /\ server = "rejected" => (OneOfFourInvalid \/ ~PortAndExporterValid)

\* A configuration whose only fault is a sampling rate above 1.0, rejected.
C26_Witness ==
    /\ server = "rejected"
    /\ served_count = 0
    /\ mcp_config.otel_trace_sample_rate = 1001
    /\ HasHTTPScheme(mcp_config.fleetpulse_backend_url)
    /\ mcp_config.request_timeout = 1
    /\ mcp_config.max_retries = 0
    /\ PortAndExporterValid

\* A valid configuration, started and serving.
C26_ValidServes ==
    /\ server = "serving"
    /\ served_count = 2
    /\ ~OneOfFourInvalid
    /\ mcp_config.fleetpulse_backend_url[5] = "s"

\* =========================================================================
\* The fleet-wide fetches of the tools
\* =========================================================================

\* `limit=10000` of list_packages, get_package_details and
\* get_fleet_statistics; `limit=100` of the get_update_reports call of search.
FleetFetchLimit == 10000
SearchReportsLimit == 100

\* The tools that fetch the updates of the whole fleet; search stands for
\* its get_update_reports call (its list_packages call is the tool itself).
FetchTools == {"list_packages", "get_package_details", "get_fleet_statistics", "search"}

FetchLimit(tool) == IF tool = "search" THEN SearchReportsLimit ELSE FleetFetchLimit

\* client.get_all_updates as the tool calls it: no hostname, offset 0, and a
\* package filter from get_package_details only.
FetchCall(tool, package, hosts, fault) ==
    Call(FetchLimit(tool), 0, None,
         IF tool = "get_package_details" THEN package ELSE NoPackage,
         NoDate, NoDate, hosts, fault)

FetchFleet(tool, package, hosts, fault) ==
    GetAllUpdates(FetchCall(tool, package, hosts, fault))

\* ---------------------------------------------------------------- claim C28

\* C28: every /history request of the aggregation layer carries a limit the
\* backend accepts, 1 <= limit <= 1000: the request behind packages_count
\* and, on a backend that answers every request, the requests of a
\* fleet-wide fetch; so such a fetch over a fleet with rows does not come
\* back empty.
C28_LimitsAccepted ==
    /\ \A h \in Hosts :
          CountRequest(h).limit \in HistoryMinLimit..HistoryMaxLimit
    /\ (phase = "returned" /\ AllAnswered(call)) =>
          /\ \A i \in 1..Len(requests) :
                requests[i].limit \in HistoryMinLimit..HistoryMaxLimit
          /\ (call.package = NoPackage /\ records # <<>>) =>
                (updates.kind = "ok" /\ updates.items # <<>>)

\* The part of C28 the code keeps: the requests behind packages_count and
\* those of search's report fetch are within the backend's bounds, and that
\* fetch is not emptied.
C28_SearchFetchAccepted ==
    /\ \A h \in Hosts :
          CountRequest(h).limit \in HistoryMinLimit..HistoryMaxLimit
    /\ (phase = "returned" /\ call.limit = SearchReportsLimit) =>
          /\ \A i \in 1..Len(requests) :
                requests[i].limit \in HistoryMinLimit..HistoryMaxLimit
          /\ (AllAnswered(call) /\ records # <<>>) =>
                (updates.kind = "ok" /\ updates.items # <<>>)

\* =========================================================================
\* get_fleet_statistics, request by request
\* =========================================================================

\* The dates hosts report with while statistics are being taken: today, and
\* a day inside the 30-day window but outside the 7-day one.
RaceDates == {Today, Today - SevenDays - 1}

\* `hosts = await self.client.list_hosts()`: the first GET /hosts.
FetchRoster(order) ==
    /\ stat_pc = "idle"
    /\ stat_pc' = "roster"
    /\ roster' = order
    /\ UNCHANGED <<stat_updates, stats, stat_fetch, reqVars, aggVars, pkgVars, detVars,
                   searchVars, rpcVars, healthVars, hostVars, reportVars, startVars>>

\* `all_updates = await self.client.get_all_updates(limit=10000)`, which
\* lists the hosts again and asks each for its history, and the statistics
\* computed from the roster and what came back.
FetchUpdatesAndCompute(order, fault) ==
    /\ stat_pc = "roster"
    /\ stat_pc' = "done"
    /\ stat_fetch' = [hosts |-> order, fault |-> fault]
    /\ \E r \in {GetAllUpdatesOf(records, FetchCall("get_fleet_statistics", NoPackage,
                                                    order, fault)).out} :
          IF r.kind = "ok"
          THEN /\ stat_updates' = r.items
               /\ stats' = GetFleetStatisticsOf(roster, r.items)
          ELSE /\ stat_updates' = <<>>
               /\ stats' = MCPToolError("Failed to get fleet statistics")
    /\ UNCHANGED <<roster, reqVars, aggVars, pkgVars, detVars, searchVars, rpcVars,
                   healthVars, hostVars, reportVars, startVars>>

\* The caller takes the statistics.
ReturnFleetStatistics ==
    /\ stat_pc = "done"
    /\ stat_pc' = "idle"
    /\ roster' = <<>>
    /\ stat_updates' = <<>>
    /\ stats' = Nothing
    /\ stat_fetch' = Nothing
    /\ UNCHANGED <<reqVars, aggVars, pkgVars, detVars, searchVars, rpcVars,
                   healthVars, hostVars, reportVars, startVars>>

\* ---------------------------------------------------------------- claim C30

AggIdle ==
    /\ records = <<>>
    /\ phase = "idle"
    /\ call = Nothing
    /\ requests = <<>>
    /\ updates = Nothing
    /\ warned = <<>>

PkgIdle ==
    /\ fetched = <<>>
    /\ set_order = <<>>
    /\ packages = Nothing

DetIdle ==
    /\ fleet = <<>>
    /\ package_name = NoPackage
    /\ details = Nothing

StatIdle ==
    /\ roster = <<>>
    /\ stat_updates = <<>>
    /\ stats = Nothing

SearchIdle ==
    /\ backend_up = TRUE
    /\ views = [hosts |-> <<>>, packages |-> <<>>, reports |-> <<>>]
    /\ search_call = Nothing
    /\ produced = <<>>
    /\ found = Nothing

RpcIdle ==
    /\ rpc_request = Nothing
    /\ rpc_handler = None
    /\ rpc_tool = NotCalled
    /\ rpc_response = Nothing
    /\ rpc_after_raise = FALSE

HealthIdle == health = Nothing

HostIdle ==
    /\ host_call = Nothing
    /\ host_answer = Nothing

ReportIdle ==
    /\ report_call = Nothing
    /\ report_list = Nothing

\* The defaults of MCPConfig, before the lifespan has run.
DefaultConfig ==
    [fleetpulse_backend_url |-> <<"h", "t", "t", "p", ":", "/", "/", "b">>,
     mcp_port |-> 8001, request_timeout |-> 30000, max_retries |-> 3,
     otel_exporter_type |-> "console", otel_trace_sample_rate |-> 1000]

StartIdle ==
    /\ mcp_config = DefaultConfig
    /\ server = "starting"
    /\ served_count = 0

RaceIdle ==
    /\ stat_pc = "idle"
    /\ stat_fetch = Nothing

MoreIdle == HealthIdle /\ HostIdle /\ ReportIdle /\ StartIdle /\ RaceIdle

ReqIdle ==
    /\ max_retries = 3
    /\ retry_count = 0
    /\ pc = "idle"
    /\ attempts = <<>>
    /\ waits = <<>>
    /\ result = Nothing

Init ==
    /\ max_retries \in 0..MaxRetriesBound
    /\ retry_count = 0
    /\ pc = "idle"
    /\ attempts = <<>>
    /\ waits = <<>>
    /\ result = Nothing
    /\ AggIdle
    /\ PkgIdle
    /\ DetIdle /\ StatIdle /\ SearchIdle /\ RpcIdle
    /\ MoreIdle

Next ==
    \/ StartRequest
    \/ \E status \in Statuses, body \in Bodies : ReceiveResponse(status, body)
    \/ \E exc \in ConnectExceptions : ConnectionFails(exc)
    \/ UnexpectedFailure
    \/ FinishRequest

Spec == Init /\ [][Next]_vars

\* The same request machine, with every attempt in flight coming to an end.
SpecFair == Init /\ [][Next]_vars /\ WF_vars(AttemptEnds)

InitAgg ==
    /\ ReqIdle
    /\ AggIdle
    /\ PkgIdle
    /\ DetIdle /\ StatIdle /\ SearchIdle /\ RpcIdle
    /\ MoreIdle

NextAgg ==
    \/ \E h \in Hosts, os \in OSes, d \in Dates, n \in PackageNames, v \in AggVersions :
          ReportUpdate(h, os, d, n, v)
    \/ \E limit \in Limits, offset \in Offsets, package \in PackageFilters,
          dates \in DateRanges :
          \/ \E hosts \in HostOrders(records), fault \in [HostsOf(records) -> Faults] :
                GetAllUpdates(Call(limit, offset, None, package, dates[1], dates[2],
                                   hosts, fault))
          \/ \E h \in Hosts, f \in Faults :
                GetAllUpdates(Call(limit, offset, h, package, dates[1], dates[2],
                                   <<>>, [x \in {h} |-> f]))
    \/ ReturnUpdates

SpecAgg == InitAgg /\ [][NextAgg]_vars

InitPkg ==
    /\ ReqIdle
    /\ AggIdle
    /\ fetched \in FetchedLists
    /\ set_order = <<>>
    /\ packages = Nothing
    /\ DetIdle /\ StatIdle /\ SearchIdle /\ RpcIdle
    /\ MoreIdle

NextPkg ==
    \/ \E iter \in IterationChoices(fetched) : ListPackages(iter)
    \/ ReturnPackages

SpecPkg == InitPkg /\ [][NextPkg]_vars

InitDet ==
    /\ ReqIdle
    /\ AggIdle
    /\ PkgIdle
    /\ fleet \in FetchedLists
    /\ package_name = NoPackage
    /\ details = Nothing
    /\ StatIdle /\ SearchIdle /\ RpcIdle
    /\ MoreIdle

NextDet ==
    \/ \E name \in DetailNames : GetPackageDetails(name)
    \/ ReturnDetails

SpecDet == InitDet /\ [][NextDet]_vars

InitStat ==
    /\ ReqIdle
    /\ AggIdle
    /\ PkgIdle
    /\ DetIdle
    /\ roster \in Rosters
    /\ stat_updates \in StatLists
    /\ stats = Nothing
    /\ SearchIdle /\ RpcIdle
    /\ MoreIdle

NextStat ==
    \/ GetFleetStatistics
    \/ ReturnStatistics

SpecStat == InitStat /\ [][NextStat]_vars

InitSearch ==
    /\ ReqIdle
    /\ AggIdle
    /\ PkgIdle
    /\ DetIdle
    /\ StatIdle
    /\ backend_up \in BOOLEAN
    /\ \E hosts \in HostLists, pkgs \in PackageLists, reports \in ReportLists :
          views = [hosts |-> hosts, packages |-> pkgs, reports |-> reports]
    /\ search_call = Nothing
    /\ produced = <<>>
    /\ found = Nothing
    /\ RpcIdle
    /\ MoreIdle

NextSearch ==
    \/ \E query \in Queries, result_type \in ResultTypes : Search(query, result_type)
    \/ ReturnFound

SpecSearch == InitSearch /\ [][NextSearch]_vars

InitRpc ==
    /\ ReqIdle
    /\ AggIdle
    /\ PkgIdle
    /\ DetIdle /\ StatIdle /\ SearchIdle
    /\ RpcIdle
    /\ MoreIdle

NextRpc ==
    \/ \E request \in RpcRequests, outcome \in ToolOutcomes : PostMcp(request, outcome)
    \/ SendResponse

SpecRpc == InitRpc /\ [][NextRpc]_vars

InitHealth ==
    /\ max_retries \in 0..MaxRetriesBound
    /\ retry_count = 0
    /\ pc = "idle"
    /\ attempts = <<>>
    /\ waits = <<>>
    /\ result = Nothing
    /\ AggIdle
    /\ PkgIdle
    /\ DetIdle /\ StatIdle /\ SearchIdle /\ RpcIdle
    /\ HealthIdle
    /\ HostIdle
    /\ ReportIdle
    /\ StartIdle
    /\ RaceIdle

NextHealth ==
    \/ StartRequest
    \/ AttemptEnds
    \/ HealthCheck
    \/ ReturnHealth

SpecHealth == InitHealth /\ [][NextHealth]_vars

InitHost ==
    /\ ReqIdle
    /\ AggIdle
    /\ PkgIdle
    /\ DetIdle /\ StatIdle /\ SearchIdle /\ RpcIdle
    /\ HealthIdle
    /\ HostIdle
    /\ ReportIdle
    /\ StartIdle
    /\ RaceIdle

\* Reports arrive between the calls of the two tools.
NextHost ==
    \/ /\ host_answer = Nothing
       /\ \E h \in Hosts, os \in HostOSes, d \in Dates, n \in PackageNames, v \in AggVersions :
             ReportUpdate(h, os, d, n, v)
    \/ \E order \in HostOrders(records), info_fault \in InfoFaults,
          fault \in [HostsOf(records) -> Faults] :
          \/ ListHosts(order, info_fault, fault)
          \/ \E hostname \in DetailHosts :
                GetHostDetails(hostname, order, info_fault, fault)
    \/ ReturnHosts

SpecHost == InitHost /\ [][NextHost]_vars

InitReports ==
    /\ ReqIdle
    /\ AggIdle
    /\ PkgIdle
    /\ DetIdle /\ StatIdle /\ SearchIdle /\ RpcIdle
    /\ HealthIdle
    /\ HostIdle
    /\ ReportIdle
    /\ StartIdle
    /\ RaceIdle

NextReports ==
    \/ /\ report_list = Nothing
       /\ \E h \in Hosts, os \in OSes, d \in Dates, n \in PackageNames, v \in AggVersions :
             ReportUpdate(h, os, d, n, v)
    \/ \E limit \in Limits, offset \in Offsets :
          \/ \E hosts \in HostOrders(records), fault \in [HostsOf(records) -> {"none", "503"}] :
                GetUpdateReports(Call(limit, offset, None, NoPackage, NoDate, NoDate,
                                      hosts, fault))
          \/ \E h \in Hosts, f \in Faults :
                GetUpdateReports(Call(limit, offset, h, NoPackage, NoDate, NoDate,
                                      <<>>, [x \in {h} |-> f]))
    \/ ReturnReports

SpecReports == InitReports /\ [][NextReports]_vars

InitStartup ==
    /\ ReqIdle
    /\ AggIdle
    /\ PkgIdle
    /\ DetIdle /\ StatIdle /\ SearchIdle /\ RpcIdle
    /\ HealthIdle
    /\ HostIdle
    /\ ReportIdle
    /\ mcp_config \in Configs
    /\ server = "starting"
    /\ served_count = 0
    /\ RaceIdle

NextStartup ==
    \/ \E is_connected \in BOOLEAN : Startup(is_connected)
    \/ HandleRequest
    \/ Shutdown

SpecStartup == InitStartup /\ [][NextStartup]_vars

InitFetch ==
    /\ ReqIdle
    /\ AggIdle
    /\ PkgIdle
    /\ DetIdle /\ StatIdle /\ SearchIdle /\ RpcIdle
    /\ MoreIdle

NextFetch ==
    \/ \E h \in Hosts, os \in OSes, d \in Dates, n \in PackageNames, v \in AggVersions :
          ReportUpdate(h, os, d, n, v)
    \/ \E tool \in FetchTools, package \in PackageFilters \ {NoPackage},
          hosts \in HostOrders(records), fault \in [HostsOf(records) -> Faults] :
          FetchFleet(tool, package, hosts, fault)
    \/ ReturnUpdates

SpecFetch == InitFetch /\ [][NextFetch]_vars

InitRace ==
    /\ ReqIdle
    /\ AggIdle
    /\ PkgIdle
    /\ DetIdle /\ StatIdle /\ SearchIdle /\ RpcIdle
    /\ MoreIdle

\* Hosts report at any time, also between the requests of a running call.
NextRace ==
    \/ \E h \in Hosts, os \in OSes, d \in RaceDates, n \in PackageNames, v \in AggVersions :
          ReportUpdate(h, os, d, n, v)
    \/ \E order \in HostOrders(records) : FetchRoster(order)
    \/ \E order \in HostOrders(records), fault \in [HostsOf(records) -> Faults] :
          FetchUpdatesAndCompute(order, fault)
    \/ ReturnFleetStatistics

SpecRace == InitRace /\ [][NextRace]_vars

====
